---- MODULE Spec2Model ----
(***************************************************************************)
(* Tournament state engine of src/script.js: group generation, round       *)
(* generation, score entry, standings, best thirds and the Round of 16     *)
(* draw, over the four localStorage keys.                                  *)
(***************************************************************************)
EXTENDS Integers, Sequences, FiniteSets, TLC

VARIABLES
  teams,              \* window.teams (teams.js)
  groups,             \* localStorage['ef_groups']
  matches,            \* localStorage['ef_matches']
  generatedRounds,    \* localStorage['ef_generatedRounds']
  knockout,           \* localStorage['ef_knockout']
  currentEditingId,   \* script.js: let currentEditingId
  submissions,        \* number of score submissions stored in this session
  last                \* the last operation run: its name, argument, return, alert

vars == <<teams, groups, matches, generatedRounds, knockout,
          currentEditingId, submissions, last>>

stored == <<groups, matches, generatedRounds, knockout>>

(***************************************************************************)
(* Bounds of the model.                                                    *)
(***************************************************************************)
\* Math.random streams a shuffle may draw from
NumStreams == 1
\* Math.random streams a Round of 16 draw may draw from
NumDraws == 2
\* Math.random streams the draws at the end of a group stage are tried with
NumShuffles == 16
\* valid goal entries are "0".."MaxGoals"
MaxGoals == 1
\* score submissions stored in one session
MaxSubmissions == 1
\* scheduled matches, in list order, whose score button is pressed
MaxOpenable == 1
\* score sheets of the earlier sessions the page may load from
NumSheets == 2

\* round numbers handed to generateRound
RoundInputs == 0..4

(***************************************************************************)
(* Program constants.                                                      *)
(***************************************************************************)
NumGroups == 6
GroupSize == 4
RosterMin == 24
totalGroupMatches == 6 * 6

(***************************************************************************)
(* JSON values in localStorage. A key is absent (removeItem, never set),   *)
(* or holds the text of null, or of a value.                               *)
(***************************************************************************)
Absent == [k |-> "absent"]
Null == [k |-> "null"]
Val(x) == [k |-> "val", v |-> x]
\* a text JSON.parse rejects, as "{oops"
Garbled == [k |-> "garbled"]
\* the text of a value of another shape than the key's: {}, an object that is
\* truthy, has no length and no array methods, and is NaN as a number
Malformed == [k |-> "malformed"]

\* load: getItem of an absent key is null and JSON.parse(null) is null; a
\* SyntaxError of JSON.parse is caught and null returned; any value that parses
\* is returned as it is
load(slot) == IF slot.k \in {"val", "malformed"} THEN slot ELSE Null

\* (x || 0) < n for a loaded x: null counts as 0, and {} < n is false
lessThan(x, n) ==
  IF x.k = "val" THEN x.v < n ELSE IF x.k = "malformed" THEN FALSE ELSE 0 < n

\* load(key) || []: an array, also an empty one, is truthy
orEmpty(x) == IF x.k = "val" THEN x.v ELSE <<>>

\* load(key) || 0
orZero(x) == IF x.k = "val" THEN x.v ELSE 0

\* a goals field: null is <<>>, the number n is <<n>>
NoGoals == <<>>
Goals(n) == <<n>>

(***************************************************************************)
(* Team names are strings, modelled as sequences of characters.            *)
(***************************************************************************)
Letters == <<"A", "B", "C", "D", "E", "F", "G", "H", "I", "J", "K", "L", "M",
             "N", "O", "P", "Q", "R", "S", "T", "U", "V", "W", "X", "Y", "Z">>
Digits == <<"0", "1", "2", "3", "4", "5", "6", "7", "8", "9">>
Whitespace == {" ", "\t"}

PlainRoster(n) == SubSeq([i \in 1..Len(Letters) |-> <<Letters[i]>>], 1, n)

\* RosterMin + 1 unique names, four of which differ only in " " against "_"
SpacedRoster ==
  << <<"X", " ", "Y">>, <<"P", " ", "Q">>, <<"X", "_", "Y">>, <<"P", "_", "Q">> >>
  \o PlainRoster(RosterMin + 1 - GroupSize)

\* window.teams: missing, one name short of RosterMin, one name more
Rosters == { Null, Val(PlainRoster(RosterMin - 1)), Val(SpacedRoster) }

(***************************************************************************)
(* Helpers                                                                 *)
(***************************************************************************)
\* rest(first), with first evaluated to a value before rest is entered: a
\* statement sequence  const x = first; return rest(x)
Then(first, rest(_)) == CHOOSE out \in {rest(x) : x \in {first}} : TRUE

\* the array with the entries f[1], f[2], ..., each computed once
array(f) == f \o <<>>

\* arr.slice(from, to), 0-based, to exclusive, cut at the array's end
slice(arr, from, to) ==
  LET hi == IF to < Len(arr) THEN to ELSE Len(arr)
  IN  IF from >= hi THEN <<>> ELSE SubSeq(arr, from + 1, hi)

\* [a[i], a[j]] = [a[j], a[i]], 0-based
swap(a, i, j) ==
  [a EXCEPT ![i + 1] = a[j + 1], ![j + 1] = a[i + 1]]

\* the k-th Math.random() of a stream, in sixteenths
random(stream, k) == (stream * 7 + k * k * 3 + k * stream * 5) % 16

\* the array after passes lo..hi of the loop; pass t has i = length - t and takes
\* the t-th Math.random() (the passes are run in order, half by half)
RECURSIVE shufflePasses(_, _, _, _)
shufflePasses(a, stream, lo, hi) ==
  IF lo > hi THEN a
  ELSE IF lo = hi
  THEN LET i == Len(a) - lo
           j == (random(stream, lo) * (i + 1)) \div 16
       IN  swap(a, i, j)
  ELSE LET mid == (lo + hi) \div 2
       IN  Then(shufflePasses(a, stream, lo, mid),
                LAMBDA b : shufflePasses(b, stream, mid + 1, hi))

\* Fisher-Yates on a copy: for (let i = a.length - 1; i > 0; i--)
shuffle(arr, stream) == shufflePasses(arr, stream, 1, Len(arr) - 1)

\* s.replace(/\s+/g, '_')
RECURSIVE replaceWs(_, _)
replaceWs(s, inRun) ==
  IF s = <<>> THEN <<>>
  ELSE IF Head(s) \in Whitespace
       THEN (IF inRun THEN <<>> ELSE <<"_">>) \o replaceWs(Tail(s), TRUE)
       ELSE <<Head(s)>> \o replaceWs(Tail(s), FALSE)

mkMatchId(groupIndex, round, home, away) ==
  <<"G", Digits[groupIndex + 1], "_", "R", Digits[round + 1], "_">>
  \o replaceWs(home, FALSE) \o <<"_", "_", "V", "S", "_", "_">>
  \o replaceWs(away, FALSE)

\* String.fromCharCode(65 + gi)
groupLetter(gi) == Letters[gi + 1]

(***************************************************************************)
(* Create / Reset Groups                                                   *)
(***************************************************************************)
\* a faulty createGroups order: the randomize flag is ignored
createGroupsOrderAlwaysShuffled(randomize, stream) == shuffle(teams.v, stream)

\* the order createGroups cuts into groups
createGroupsOrder(randomize, stream) ==
  IF randomize THEN shuffle(teams.v, stream) ELSE slice(teams.v, 0, 24)

createGroupsGroups(order) ==
  array([i \in 1..NumGroups |-> slice(order, (i - 1) * 4, (i - 1) * 4 + 4)])

\* the record of a finished call: what was called with what, what it returned
\* and alerted, and what it found stored (the counter, the length of the match
\* list, whether there was a bracket)
Done(op, arg, ret, alert) ==
  [ op |-> op, arg |-> arg, ret |-> ret, alert |-> alert,
    was |-> [ rounds |-> generatedRounds,
              count |-> Len(orEmpty(load(matches))),
              bracket |-> knockout.k = "val" ] ]

\* a faulty createGroups: the roster check is off by one
createGroupsShortRoster(randomize, stream) ==
  IF teams.k # "val" \/ Len(teams.v) < RosterMin - 1
  THEN /\ last' = Done("createGroups", <<randomize>>, "null", "teams")
       /\ UNCHANGED <<teams, stored, submissions>>
  ELSE /\ groups' = Val(createGroupsGroups(createGroupsOrder(randomize, stream)))
       /\ matches' = Val(<<>>)
       /\ generatedRounds' = Val(0)
       /\ knockout' = Null
       /\ last' = Done("createGroups", <<randomize>>, "groups", "none")
       /\ UNCHANGED <<teams, submissions>>

\* a faulty createGroups: the match list is left in place
createGroupsKeepsMatches(randomize, stream) ==
  IF teams.k # "val" \/ Len(teams.v) < RosterMin
  THEN /\ last' = Done("createGroups", <<randomize>>, "null", "teams")
       /\ UNCHANGED <<teams, stored, submissions>>
  ELSE /\ groups' = Val(createGroupsGroups(createGroupsOrder(randomize, stream)))
       /\ generatedRounds' = Val(0)
       /\ knockout' = Null
       /\ last' = Done("createGroups", <<randomize>>, "groups", "none")
       /\ UNCHANGED <<teams, matches, submissions>>

\* a faulty createGroups: the bracket of the previous group stage is kept
createGroupsKeepsKnockout(randomize, stream) ==
  IF teams.k # "val" \/ Len(teams.v) < RosterMin
  THEN /\ last' = Done("createGroups", <<randomize>>, "null", "teams")
       /\ UNCHANGED <<teams, stored, submissions>>
  ELSE /\ groups' = Val(createGroupsGroups(createGroupsOrder(randomize, stream)))
       /\ matches' = Val(<<>>)
       /\ generatedRounds' = Val(0)
       /\ last' = Done("createGroups", <<randomize>>, "groups", "none")
       /\ UNCHANGED <<teams, knockout, submissions>>

createGroups(randomize, stream) ==
  IF teams.k # "val" \/ Len(teams.v) < RosterMin
  THEN /\ last' = Done("createGroups", <<randomize>>, "null", "teams")
       /\ UNCHANGED <<teams, stored, submissions>>
  ELSE /\ groups' = Val(createGroupsGroups(createGroupsOrder(randomize, stream)))
       /\ matches' = Val(<<>>)
       /\ generatedRounds' = Val(0)
       /\ knockout' = Null
       /\ last' = Done("createGroups", <<randomize>>, "groups", "none")
       /\ UNCHANGED <<teams, submissions>>

\* createGroups called while the page is open
CreateGroups(randomize, stream) ==
  createGroups(randomize, stream) /\ UNCHANGED currentEditingId

(***************************************************************************)
(* Match generation (round-robin template)                                 *)
(***************************************************************************)
makeMatchObj(groupIndex, round, home, away) ==
  [ id |-> mkMatchId(groupIndex, round, home, away),
    groupIndex |-> groupIndex,
    groupName |-> groupLetter(groupIndex),
    round |-> round,
    home |-> home,
    away |-> away,
    homeGoals |-> NoGoals,
    awayGoals |-> NoGoals,
    status |-> "scheduled" ]

\* the two fixtures of a group in a round
candidates(group, gi, roundNumber) ==
  LET T1 == group[1]
      T2 == group[2]
      T3 == group[3]
      T4 == group[4]
  IN  IF roundNumber = 1
      THEN <<makeMatchObj(gi, 1, T1, T2), makeMatchObj(gi, 1, T3, T4)>>
      ELSE IF roundNumber = 2
      THEN <<makeMatchObj(gi, 2, T1, T3), makeMatchObj(gi, 2, T2, T4)>>
      ELSE IF roundNumber = 3
      THEN <<makeMatchObj(gi, 3, T1, T4), makeMatchObj(gi, 3, T2, T3)>>
      ELSE <<>>

\* a faulty push: the candidate is appended without looking for its id
pushAlways(ms, c) == Append(ms, c)

\* if (!matches.find(m => m.id === c.id)) matches.push(c)
pushIfNew(ms, c) ==
  IF \E i \in DOMAIN ms : ms[i].id = c.id THEN ms ELSE Append(ms, c)

RECURSIVE pushAll(_, _)
pushAll(ms, cs) ==
  IF cs = <<>> THEN ms ELSE pushAll(pushIfNew(ms, Head(cs)), Tail(cs))

\* groups.forEach((group, gi) => ...), from group gi on
RECURSIVE generateRoundFrom(_, _, _, _)
generateRoundFrom(gs, gi, ms, roundNumber) ==
  IF gi >= Len(gs) THEN ms
  ELSE IF Len(gs[gi + 1]) # 4
       THEN generateRoundFrom(gs, gi + 1, ms, roundNumber)
       ELSE Then(pushAll(ms, candidates(gs[gi + 1], gi, roundNumber)),
                 LAMBDA pushed : generateRoundFrom(gs, gi + 1, pushed, roundNumber))

\* generateRound, past its two guards, throws a TypeError: groups.forEach is not
\* a function, or matches.find is not one when a group of 4 has a candidate
generateRoundThrows ==
  \/ load(groups) = Malformed
  \/ /\ load(matches) = Malformed
     /\ \E g \in DOMAIN load(groups).v : Len(load(groups).v[g]) = 4

\* a faulty generateRound: the counter is saved although no groups are stored
GenerateRoundCountsWithoutGroups(roundNumber) ==
  IF roundNumber \notin {1, 2, 3}
  THEN /\ last' = Done("generateRound", <<roundNumber>>, "undefined", "none")
       /\ UNCHANGED <<teams, stored, currentEditingId, submissions>>
  ELSE IF load(groups) = Null
  THEN /\ generatedRounds' = Val(roundNumber)
       /\ last' = Done("generateRound", <<roundNumber>>, "undefined", "groups")
       /\ UNCHANGED <<teams, groups, matches, knockout, currentEditingId, submissions>>
  ELSE IF generateRoundThrows
  THEN /\ last' = Done("generateRound", <<roundNumber>>, "throws", "none")
       /\ UNCHANGED <<teams, stored, currentEditingId, submissions>>
  ELSE /\ matches' = Val(generateRoundFrom(load(groups).v, 0,
                           orEmpty(load(matches)), roundNumber))
       /\ generatedRounds' = Val(roundNumber)
       /\ last' = Done("generateRound", <<roundNumber>>, "matches", "none")
       /\ UNCHANGED <<teams, groups, knockout, currentEditingId, submissions>>

\* a faulty generateRound: the counter never goes down
GenerateRoundMonotonic(roundNumber) ==
  IF roundNumber \notin {1, 2, 3}
  THEN /\ last' = Done("generateRound", <<roundNumber>>, "undefined", "none")
       /\ UNCHANGED <<teams, stored, currentEditingId, submissions>>
  ELSE IF load(groups) = Null
  THEN /\ last' = Done("generateRound", <<roundNumber>>, "undefined", "groups")
       /\ UNCHANGED <<teams, stored, currentEditingId, submissions>>
  ELSE IF generateRoundThrows
  THEN /\ last' = Done("generateRound", <<roundNumber>>, "throws", "none")
       /\ UNCHANGED <<teams, stored, currentEditingId, submissions>>
  ELSE /\ matches' = Val(generateRoundFrom(load(groups).v, 0,
                           orEmpty(load(matches)), roundNumber))
       /\ generatedRounds' = Val(IF orZero(load(generatedRounds)) > roundNumber
                                 THEN orZero(load(generatedRounds)) ELSE roundNumber)
       /\ last' = Done("generateRound", <<roundNumber>>, "matches", "none")
       /\ UNCHANGED <<teams, groups, knockout, currentEditingId, submissions>>

GenerateRound(roundNumber) ==
  IF roundNumber \notin {1, 2, 3}
  THEN /\ last' = Done("generateRound", <<roundNumber>>, "undefined", "none")
       /\ UNCHANGED <<teams, stored, currentEditingId, submissions>>
  ELSE IF load(groups) = Null
  THEN /\ last' = Done("generateRound", <<roundNumber>>, "undefined", "groups")
       /\ UNCHANGED <<teams, stored, currentEditingId, submissions>>
  ELSE IF generateRoundThrows
  THEN /\ last' = Done("generateRound", <<roundNumber>>, "throws", "none")
       /\ UNCHANGED <<teams, stored, currentEditingId, submissions>>
  ELSE /\ matches' = Val(generateRoundFrom(load(groups).v, 0,
                           orEmpty(load(matches)), roundNumber))
       /\ generatedRounds' = Val(roundNumber)
       /\ last' = Done("generateRound", <<roundNumber>>, "matches", "none")
       /\ UNCHANGED <<teams, groups, knockout, currentEditingId, submissions>>

(***************************************************************************)
(* Compute Standings                                                       *)
(***************************************************************************)
\* Number(g || 0), and g as a relational operand: null counts as 0
num(g) == IF g = NoGoals THEN 0 ELSE g[1]

Collation == <<"\t", " ", "_">> \o Digits \o Letters
rank(c) == CHOOSE i \in DOMAIN Collation : Collation[i] = c

\* a.localeCompare(b): -1, 0 or 1
localeCompare(a, b) ==
  LET n == IF Len(a) < Len(b) THEN Len(a) ELSE Len(b)
      diff == {i \in 1..n : a[i] # b[i]}
  IN  IF diff = {}
      THEN (IF Len(a) < Len(b) THEN -1 ELSE IF Len(a) > Len(b) THEN 1 ELSE 0)
      ELSE LET i == CHOOSE x \in diff : \A y \in diff : x <= y
           IN  IF rank(a[i]) < rank(b[i]) THEN -1 ELSE 1

\* Array.prototype.sort: stable, by the comparator
sort(arr, cmp(_, _)) ==
  LET n == Len(arr)
      before(i, j) == \/ cmp(arr[i], arr[j]) < 0
                      \/ (cmp(arr[i], arr[j]) = 0 /\ i < j)
      pos(i) == 1 + Cardinality({j \in 1..n : before(j, i)})
  IN  array([p \in 1..n |-> arr[CHOOSE i \in 1..n : pos(i) = p]])

newRow(team) ==
  [ team |-> team, played |-> 0, w |-> 0, d |-> 0, l |-> 0,
    gf |-> 0, ga |-> 0, gd |-> 0, pts |-> 0 ]

\* arr.find(x => x.team === name): its index, 0 when there is none
findTeam(arr, name) ==
  IF \E i \in DOMAIN arr : arr[i].team = name
  THEN CHOOSE i \in DOMAIN arr :
         arr[i].team = name /\ \A j \in 1..(i - 1) : arr[j].team # name
  ELSE 0

\* a faulty credit: a draw earns no point
creditNothingForADraw(row, for, against) ==
  [row EXCEPT !.played = @ + 1,
              !.gf = @ + for,
              !.ga = @ + against,
              !.w = @ + (IF for > against THEN 1 ELSE 0),
              !.l = @ + (IF for < against THEN 1 ELSE 0),
              !.d = @ + (IF for = against THEN 1 ELSE 0),
              !.pts = @ + (IF for > against THEN 3 ELSE 0)]

\* what one side of a played match adds to its row
credit(row, for, against) ==
  [row EXCEPT !.played = @ + 1,
              !.gf = @ + for,
              !.ga = @ + against,
              !.w = @ + (IF for > against THEN 1 ELSE 0),
              !.l = @ + (IF for < against THEN 1 ELSE 0),
              !.d = @ + (IF for = against THEN 1 ELSE 0),
              !.pts = @ + (IF for > against THEN 3
                           ELSE IF for = against THEN 1 ELSE 0)]

\* a faulty forEach body: the status of the match is not looked at
accumulateAnyStatus(stats, m) ==
  IF m.groupIndex + 1 \notin DOMAIN stats THEN stats
  ELSE LET gi == m.groupIndex + 1
           h == findTeam(stats[gi], m.home)
           a == findTeam(stats[gi], m.away)
       IN  IF h = 0 \/ a = 0 THEN stats
           ELSE LET s1 == [stats EXCEPT ![gi][h] =
                             credit(@, num(m.homeGoals), num(m.awayGoals))]
                IN  [s1 EXCEPT ![gi][a] =
                       credit(@, num(m.awayGoals), num(m.homeGoals))]

\* the body of matches.forEach(m => ...)
accumulate(stats, m) ==
  IF m.status # "played" THEN stats
  ELSE IF m.groupIndex + 1 \notin DOMAIN stats THEN stats
  ELSE LET gi == m.groupIndex + 1
           h == findTeam(stats[gi], m.home)
           a == findTeam(stats[gi], m.away)
       IN  IF h = 0 \/ a = 0 THEN stats
           ELSE LET s1 == [stats EXCEPT ![gi][h] =
                             credit(@, num(m.homeGoals), num(m.awayGoals))]
                IN  [s1 EXCEPT ![gi][a] =
                       credit(@, num(m.awayGoals), num(m.homeGoals))]

\* matches.forEach over ms[lo..hi], in order, half by half
RECURSIVE accumulateRange(_, _, _, _)
accumulateRange(stats, ms, lo, hi) ==
  IF lo > hi THEN stats
  ELSE IF lo = hi THEN accumulate(stats, ms[lo])
  ELSE LET mid == (lo + hi) \div 2
       IN  Then(accumulateRange(stats, ms, lo, mid),
                LAMBDA left : accumulateRange(left, ms, mid + 1, hi))

accumulateAll(stats, ms) == accumulateRange(stats, ms, 1, Len(ms))

\* a faulty comparator: goals-for is not looked at
compareRowsWithoutGoalsFor(a, b) ==
  IF b.pts # a.pts THEN b.pts - a.pts
  ELSE IF b.gd # a.gd THEN b.gd - a.gd
  ELSE localeCompare(a.team, b.team)

\* points -> gd -> gf -> name
compareRows(a, b) ==
  IF b.pts # a.pts THEN b.pts - a.pts
  ELSE IF b.gd # a.gd THEN b.gd - a.gd
  ELSE IF b.gf # a.gf THEN b.gf - a.gf
  ELSE localeCompare(a.team, b.team)

\* ({ ...r, position })
positioned(r, position) ==
  [ team |-> r.team, played |-> r.played, w |-> r.w, d |-> r.d, l |-> r.l,
    gf |-> r.gf, ga |-> r.ga, gd |-> r.gd, pts |-> r.pts, position |-> position ]

rankGroup(arr) ==
  LET withGd == array([i \in DOMAIN arr |->
                           [arr[i] EXCEPT !.gd = arr[i].gf - arr[i].ga]])
      sorted == sort(withGd, compareRows)
  IN  array([idx \in DOMAIN sorted |-> positioned(sorted[idx], idx)])

\* g.map(team => ({team, played: 0, ...}))
RECURSIVE initRows(_)
initRows(g) ==
  IF g = <<>> THEN <<>> ELSE <<newRow(Head(g))>> \o initRows(Tail(g))

\* groups.map(g => ...)
RECURSIVE initGroups(_)
initGroups(gs) ==
  IF gs = <<>> THEN <<>> ELSE <<initRows(Head(gs))>> \o initGroups(Tail(gs))

\* computeStandings() on the stored groups and matches
computeStandingsOf(gs, ms) ==
  Then(accumulateAll(initGroups(gs), ms),
       LAMBDA statsPerGroup :
         array([g \in DOMAIN statsPerGroup |-> rankGroup(statsPerGroup[g])]))

computeStandings ==
  computeStandingsOf(orEmpty(load(groups)), orEmpty(load(matches)))

\* computeStandings throws a TypeError: groups.map or matches.forEach is not a
\* function
computeStandingsThrows == load(groups) = Malformed \/ load(matches) = Malformed

(***************************************************************************)
(* Best 4 thirds selection                                                 *)
(***************************************************************************)
\* the comparator of thirds.sort
compareThirds(a, b) ==
  IF b.pts # a.pts THEN b.pts - a.pts
  ELSE IF (b.gf - b.ga) # (a.gf - a.ga) THEN (b.gf - b.ga) - (a.gf - a.ga)
  ELSE IF b.gf # a.gf THEN b.gf - a.gf
  ELSE localeCompare(a.team, b.team)

\* ({ ...third, group })
grouped(r, group) ==
  [ team |-> r.team, played |-> r.played, w |-> r.w, d |-> r.d, l |-> r.l,
    gf |-> r.gf, ga |-> r.ga, gd |-> r.gd, pts |-> r.pts, position |-> r.position,
    group |-> group ]

\* sortedStandings.forEach((arr, gi) => ...), from group gi on
RECURSIVE thirdsFrom(_, _)
thirdsFrom(sortedStandings, gi) ==
  IF gi >= Len(sortedStandings) THEN <<>>
  ELSE LET arr == sortedStandings[gi + 1]
           here == IF \E i \in DOMAIN arr : arr[i].position = 3
                   THEN LET i == CHOOSE x \in DOMAIN arr : arr[x].position = 3
                        IN  <<grouped(arr[i], groupLetter(gi))>>
                   ELSE <<>>
       IN  here \o thirdsFrom(sortedStandings, gi + 1)

\* a faulty getBestFourThirds: the thirds are left in group order
getBestFourThirdsUnsorted(sortedStandings) ==
  LET thirds == thirdsFrom(sortedStandings, 0)
  IN  [all |-> thirds, qualified |-> slice(thirds, 0, 4)]

getBestFourThirds(sortedStandings) ==
  LET thirds == sort(thirdsFrom(sortedStandings, 0), compareThirds)
  IN  [all |-> thirds, qualified |-> slice(thirds, 0, 4)]

(***************************************************************************)
(* Knockout generation                                                     *)
(***************************************************************************)
entrant(row, gi, seed) == [team |-> row.team, group |-> groupLetter(gi), seed |-> seed]

\* a faulty pool: the seconds are read one row too low
assemblePoolWithThirdsAsSeconds(sorted) ==
  array([gi \in 1..Len(sorted) |-> entrant(sorted[gi][1], gi - 1, "1st")])
  \o array([gi \in 1..Len(sorted) |-> entrant(sorted[gi][3], gi - 1, "2nd")])
  \o LET q == getBestFourThirds(sorted).qualified
     IN  array([i \in DOMAIN q |->
                  [team |-> q[i].team, group |-> q[i].group, seed |-> "3rd"]])

\* winners, then seconds, then the qualified thirds
assemblePool(sorted) ==
  array([gi \in 1..Len(sorted) |-> entrant(sorted[gi][1], gi - 1, "1st")])
  \o array([gi \in 1..Len(sorted) |-> entrant(sorted[gi][2], gi - 1, "2nd")])
  \o LET q == getBestFourThirds(sorted).qualified
     IN  array([i \in DOMAIN q |->
                  [team |-> q[i].team, group |-> q[i].group, seed |-> "3rd"]])

\* a faulty search: the pairing j is left with is not looked at
awaySwapOneSided(homeSlice, awaySlice, i) ==
  LET ok == {j \in (i + 1)..7 : homeSlice[i + 1].group # awaySlice[j + 1].group}
  IN  IF ok = {} THEN 8 ELSE CHOOSE j \in ok : \A x \in ok : j <= x

\* the first j > i whose away entrant can change places with away[i]; 8 when none
awaySwap(homeSlice, awaySlice, i) ==
  LET ok == {j \in (i + 1)..7 :
               /\ homeSlice[i + 1].group # awaySlice[j + 1].group
               /\ homeSlice[j + 1].group # awaySlice[i + 1].group}
  IN  IF ok = {} THEN 8 ELSE CHOOSE j \in ok : \A x \in ok : j <= x

\* the first j > i whose home entrant can change places with home[i]; 8 when none
homeSwap(homeSlice, awaySlice, i) ==
  LET ok == {j \in (i + 1)..7 :
               /\ awaySlice[i + 1].group # homeSlice[j + 1].group
               /\ awaySlice[j + 1].group # homeSlice[i + 1].group}
  IN  IF ok = {} THEN 8 ELSE CHOOSE j \in ok : \A x \in ok : j <= x

\* a faulty repair: the away entrant found is copied, not exchanged
repairAtCopying(homeSlice, awaySlice, i) ==
  IF homeSlice[i + 1].group # awaySlice[i + 1].group
  THEN <<homeSlice, awaySlice>>
  ELSE LET ja == awaySwap(homeSlice, awaySlice, i)
           jh == homeSwap(homeSlice, awaySlice, i)
       IN  IF ja < 8 THEN <<homeSlice, [awaySlice EXCEPT ![i + 1] = awaySlice[ja + 1]]>>
           ELSE IF jh < 8 THEN <<swap(homeSlice, i, jh), awaySlice>>
           ELSE <<homeSlice, awaySlice>>

\* one pass of the repair loop at index i: the two slices after it
repairAt(homeSlice, awaySlice, i) ==
  IF homeSlice[i + 1].group # awaySlice[i + 1].group
  THEN <<homeSlice, awaySlice>>
  ELSE LET ja == awaySwap(homeSlice, awaySlice, i)
           jh == homeSwap(homeSlice, awaySlice, i)
       IN  IF ja < 8 THEN <<homeSlice, swap(awaySlice, i, ja)>>
           ELSE IF jh < 8 THEN <<swap(homeSlice, i, jh), awaySlice>>
           ELSE <<homeSlice, awaySlice>>

\* for (let i = 0; i < 8; i++), from i on
RECURSIVE repairFrom(_, _, _)
repairFrom(homeSlice, awaySlice, i) ==
  IF i >= 8 THEN <<homeSlice, awaySlice>>
  ELSE Then(repairAt(homeSlice, awaySlice, i),
            LAMBDA r : repairFrom(r[1], r[2], i + 1))

\* the pairing of a pool: the home and away slices after repair
drawSlices(pool, stream) ==
  Then(shuffle(pool, stream),
       LAMBDA shuffled : repairFrom(slice(shuffled, 0, 8), slice(shuffled, 8, 16), 0))

makeR16(homeSlice, awaySlice) ==
  array([idx \in DOMAIN homeSlice |->
     [ id |-> <<"R", "1", "6", "-", Digits[idx + 1]>>,
       home |-> homeSlice[idx].team,
       away |-> awaySlice[idx].team,
       homeGoals |-> NoGoals,
       awayGoals |-> NoGoals,
       status |-> "scheduled" ]])

\* a faulty count: every match of the list counts as played
playedCountAnyStatus(ms) == Len(ms)

playedCount(ms) == Cardinality({i \in DOMAIN ms : ms[i].status = "played"})

\* a faulty guard: two generated rounds are enough
knockoutDueAfterTwoRounds(rs, ms, ko) ==
  /\ ~lessThan(load(rs), 2)
  /\ playedCount(orEmpty(load(ms))) >= totalGroupMatches
  /\ ~(load(ko).k = "val" /\ Len(load(ko).v.r16) > 0)

\* a faulty guard: a stored bracket is not looked for
knockoutDueAgain(rs, ms, ko) ==
  /\ ~lessThan(load(rs), 3)
  /\ playedCount(orEmpty(load(ms))) >= totalGroupMatches

\* whether tryAutoGenerateKnockout goes on to draw, on these stored values
knockoutDue(rs, ms, ko) ==
  /\ ~lessThan(load(rs), 3)
  /\ playedCount(orEmpty(load(ms))) >= totalGroupMatches
  /\ ~(load(ko).k = "val" /\ Len(load(ko).v.r16) > 0)

\* the bracket drawn from the standings
drawBracket(sorted, stream) ==
  Then(assemblePool(sorted), LAMBDA pool :
    Then(drawSlices(pool, stream), LAMBDA s :
      [r16 |-> makeR16(s[1], s[2]), qf |-> <<>>, sf |-> <<>>, final |-> <<>>]))

\* the pool of these groups has a group without a winner and a second, or fewer
\* than 16 entrants, so that reading its rows or slices meets undefined
poolShort(gs) ==
  \/ \E g \in DOMAIN gs : Len(gs[g]) < 2
  \/ LET thirds == Cardinality({g \in DOMAIN gs : Len(gs[g]) >= 3})
     IN  2 * Len(gs) + (IF thirds < 4 THEN thirds ELSE 4) < 16

\* tryAutoGenerateKnockout throws a TypeError: matches.filter is not a function,
\* groups.map is not one (in computeStandings), or homeSlice[i] is undefined
knockoutThrows(gs, ms, rs, ko) ==
  \/ ~lessThan(load(rs), 3) /\ load(ms) = Malformed
  \/ knockoutDue(rs, ms, ko) /\ load(gs) = Malformed
  \/ knockoutDue(rs, ms, ko) /\ load(gs) # Malformed /\ poolShort(orEmpty(load(gs)))

\* the value tryAutoGenerateKnockout leaves under ef_knockout
tryAutoGenerateKnockout(gs, ms, rs, ko, stream) ==
  IF ~knockoutDue(rs, ms, ko) \/ knockoutThrows(gs, ms, rs, ko) THEN ko
  ELSE Then(computeStandingsOf(orEmpty(load(gs)), orEmpty(load(ms))),
            LAMBDA sorted : Val(drawBracket(sorted, stream)))

TryAutoGenerateKnockout(stream) ==
  /\ knockout' = tryAutoGenerateKnockout(groups, matches, generatedRounds, knockout, stream)
  /\ last' = IF knockoutThrows(groups, matches, generatedRounds, knockout)
             THEN Done("tryAutoGenerateKnockout", <<>>, "throws", "none")
             ELSE Done("tryAutoGenerateKnockout", <<>>, "undefined",
                       IF knockoutDue(generatedRounds, matches, knockout)
                       THEN "generated" ELSE "none")
  /\ UNCHANGED <<teams, groups, matches, generatedRounds, currentEditingId, submissions>>

(***************************************************************************)
(* Modal logic                                                             *)
(***************************************************************************)
\* the texts of a goals field: a negative number, a word, nothing, a number
GoalEntries == {"-1", "x", ""} \cup {Digits[n + 1] : n \in 0..MaxGoals}

\* the pairs typed into the modal: every pair of numbers from 0 on, and every
\* other entry on either side of a "0"
ScoreEntries ==
  {e \in GoalEntries \X GoalEntries :
     \/ {e[1], e[2]} \cap {"-1", "x", ""} = {}
     \/ "0" \in {e[1], e[2]}}

\* Number(text): NaN, or the number; the empty text converts to 0
Number(text) ==
  IF text = "-1" THEN [nan |-> FALSE, n |-> -1]
  ELSE IF text = "" THEN [nan |-> FALSE, n |-> 0]
  ELSE IF \E n \in 0..9 : Digits[n + 1] = text
       THEN [nan |-> FALSE, n |-> CHOOSE n \in 0..9 : Digits[n + 1] = text]
       ELSE [nan |-> TRUE, n |-> 0]

\* matches.findIndex(m => m.id === id), 0-based, -1 when there is none
findIndex(ms, id) ==
  IF \E i \in DOMAIN ms : ms[i].id = id
  THEN (CHOOSE i \in DOMAIN ms :
          ms[i].id = id /\ \A j \in 1..(i - 1) : ms[j].id # id) - 1
  ELSE -1

\* the ids behind the first MaxOpenable "enter score" buttons of the match list
enterScoreIds ==
  LET ms == orEmpty(load(matches))
      scheduled(i) == ms[i].status = "scheduled"
  IN  {ms[i].id : i \in {k \in DOMAIN ms :
         scheduled(k) /\ Cardinality({j \in 1..(k - 1) : scheduled(j)}) < MaxOpenable}}

OpenScoreModal(matchId) ==
  /\ submissions < MaxSubmissions
  /\ currentEditingId' = matchId
  /\ last' = Done("openScoreModal", <<>>, "undefined", "none")
  /\ UNCHANGED <<teams, stored, submissions>>

CloseScoreModal ==
  /\ currentEditingId' = <<>>
  /\ last' = Done("closeScoreModal", <<>>, "undefined", "none")
  /\ UNCHANGED <<teams, stored, submissions>>

\* a faulty update: the record saved is a new one, without the match's id
scoredAnew(m, hg, ag) ==
  [m EXCEPT !.id = <<>>, !.homeGoals = Goals(hg), !.awayGoals = Goals(ag),
            !.status = "played"]

\* matches[idx] with the goals entered
scored(m, hg, ag) ==
  [m EXCEPT !.homeGoals = Goals(hg), !.awayGoals = Goals(ag), !.status = "played"]

SaveScoreFromModal(homeText, awayText, stream) ==
  LET hg == Number(homeText)
      ag == Number(awayText)
      ms == orEmpty(load(matches))
      idx == findIndex(ms, currentEditingId)
  IN  IF hg.nan \/ ag.nan \/ hg.n < 0 \/ ag.n < 0
      THEN /\ last' = Done("saveScoreFromModal", <<>>, "undefined", "goals")
           /\ UNCHANGED <<teams, stored, currentEditingId, submissions>>
      ELSE IF load(matches) = Malformed
      THEN /\ last' = Done("saveScoreFromModal", <<>>, "throws", "none")
           /\ UNCHANGED <<teams, stored, currentEditingId, submissions>>
      ELSE IF idx = -1
      THEN /\ currentEditingId' = <<>>
           /\ last' = Done("saveScoreFromModal", <<>>, "undefined", "none")
           /\ UNCHANGED <<teams, stored, submissions>>
      ELSE LET saved == Val([ms EXCEPT ![idx + 1] = scored(@, hg.n, ag.n)])
           IN  /\ submissions < MaxSubmissions
               /\ matches' = saved
               /\ currentEditingId' = <<>>
               /\ knockout' = tryAutoGenerateKnockout(groups, saved, generatedRounds,
                                                      knockout, stream)
               /\ submissions' = submissions + 1
               /\ last' = IF knockoutThrows(groups, saved, generatedRounds, knockout)
                          THEN Done("saveScoreFromModal", <<>>, "throws", "none")
                          ELSE Done("saveScoreFromModal", <<>>, "undefined",
                                    IF knockoutDue(generatedRounds, saved, knockout)
                                    THEN "generated" ELSE "none")
               /\ UNCHANGED <<teams, groups, generatedRounds>>

(***************************************************************************)
(* Reset, and the page's start                                             *)
(***************************************************************************)
\* a faulty resetTournament: the bracket is left in place
ResetTournamentKeepsBracket(confirmed) ==
  IF ~confirmed
  THEN /\ last' = Done("resetTournament", <<>>, "undefined", "none")
       /\ UNCHANGED <<teams, stored, currentEditingId, submissions>>
  ELSE /\ groups' = Absent
       /\ matches' = Absent
       /\ generatedRounds' = Absent
       /\ currentEditingId' = <<>>
       /\ last' = Done("resetTournament", <<>>, "undefined", "reset")
       /\ UNCHANGED <<teams, knockout, submissions>>

\* resetTournament; location.reload() starts the script afresh
ResetTournament(confirmed) ==
  IF ~confirmed
  THEN /\ last' = Done("resetTournament", <<>>, "undefined", "none")
       /\ UNCHANGED <<teams, stored, currentEditingId, submissions>>
  ELSE /\ groups' = Absent
       /\ matches' = Absent
       /\ generatedRounds' = Absent
       /\ knockout' = Absent
       /\ currentEditingId' = <<>>
       /\ last' = Done("resetTournament", <<>>, "undefined", "reset")
       /\ UNCHANGED <<teams, submissions>>

\* DOMContentLoaded on the groups page: the script starts afresh, and
\* initGroupsPage creates groups when none are stored
InitGroupsPage(stream) ==
  IF load(groups) = Null
  THEN /\ currentEditingId' = <<>>
       /\ createGroups(TRUE, stream)
  ELSE /\ currentEditingId' = <<>>
       /\ last' = Done("initGroupsPage", <<>>, "undefined", "none")
       /\ UNCHANGED <<teams, stored, submissions>>

(***************************************************************************)
(* The entry points of the page: the button handlers of initGroupsPage and *)
(* the functions exposed on window                                         *)
(***************************************************************************)
\* the roster check of createGroups fails
rosterShort == teams.k # "val" \/ Len(teams.v) < RosterMin

\* createGroups(true); renderGroupsPanel(); save(KEY_ROUNDS, 0): the counter is
\* saved whatever createGroups did
createGroupsThenZero(op, stream) ==
  /\ groups' = IF rosterShort THEN groups
               ELSE Val(createGroupsGroups(createGroupsOrder(TRUE, stream)))
  /\ matches' = IF rosterShort THEN matches ELSE Val(<<>>)
  /\ generatedRounds' = Val(0)
  /\ knockout' = IF rosterShort THEN knockout ELSE Null
  /\ last' = Done(op, <<>>, "undefined", IF rosterShort THEN "teams" ELSE "none")
  /\ UNCHANGED <<teams, currentEditingId, submissions>>

\* window.createGroups()
WindowCreateGroups(stream) == createGroupsThenZero("window.createGroups", stream)

\* a click on Generate Groups
GenerateGroupsClick(stream) == createGroupsThenZero("generateGroupsBtn", stream)

\* the match list generateRound(n) leaves for a round n of 1..3: with no groups
\* it alerts and returns
generateRoundStored(n) ==
  IF load(groups) = Null THEN matches
  ELSE Val(generateRoundFrom(load(groups).v, 0, orEmpty(load(matches)), n))

\* window.generateRound(n): generateRound(n); save(KEY_ROUNDS, n); the renders;
\* tryAutoGenerateKnockout()
WindowGenerateRound(n, stream) ==
  IF n \notin {1, 2, 3}
  THEN /\ last' = Done("window.generateRound", <<n>>, "undefined", "none")
       /\ UNCHANGED <<teams, stored, currentEditingId, submissions>>
  ELSE IF load(groups) # Null /\ generateRoundThrows
  THEN /\ last' = Done("window.generateRound", <<n>>, "throws", "none")
       /\ UNCHANGED <<teams, stored, currentEditingId, submissions>>
  ELSE LET ms == generateRoundStored(n)
           rendersThrow == load(ms) = Malformed
       IN  /\ matches' = ms
           /\ generatedRounds' = Val(n)
           /\ knockout' = IF rendersThrow THEN knockout
                          ELSE tryAutoGenerateKnockout(groups, ms, Val(n), knockout, stream)
           /\ last' = IF rendersThrow \/ knockoutThrows(groups, ms, Val(n), knockout)
                      THEN Done("window.generateRound", <<n>>, "throws", "none")
                      ELSE Done("window.generateRound", <<n>>, "undefined",
                                IF knockoutDue(Val(n), ms, knockout) THEN "generated"
                                ELSE IF load(groups) = Null THEN "groups" ELSE "none")
           /\ UNCHANGED <<teams, groups, currentEditingId, submissions>>

\* a click on Generate Next Round: at 3 it alerts and returns; else
\* generateRound(gen + 1); save(KEY_ROUNDS, gen + 1); the renders. A counter
\* that is no number is not >= 3, and gen + 1 is then a text, which generateRound
\* refuses and save stores
GenerateRoundClick ==
  LET gen == load(generatedRounds)
      newRound == orZero(gen) + 1
  IN  IF gen = Malformed
      THEN /\ generatedRounds' = Malformed
           /\ last' = Done("generateRoundBtn", <<>>,
                           IF load(matches) = Malformed THEN "throws" ELSE "undefined", "none")
           /\ UNCHANGED <<teams, groups, matches, knockout, currentEditingId, submissions>>
      ELSE IF ~lessThan(gen, 3)
      THEN /\ last' = Done("generateRoundBtn", <<>>, "undefined", "rounds")
           /\ UNCHANGED <<teams, stored, currentEditingId, submissions>>
      ELSE IF load(groups) # Null /\ generateRoundThrows
      THEN /\ last' = Done("generateRoundBtn", <<>>, "throws", "none")
           /\ UNCHANGED <<teams, stored, currentEditingId, submissions>>
      ELSE /\ matches' = generateRoundStored(newRound)
           /\ generatedRounds' = Val(newRound)
           /\ last' = Done("generateRoundBtn", <<>>,
                           IF load(matches') = Malformed THEN "throws" ELSE "undefined",
                           IF load(groups) = Null THEN "groups" ELSE "none")
           /\ UNCHANGED <<teams, groups, knockout, currentEditingId, submissions>>

\* a click on Go to Knockout: tryAutoGenerateKnockout(), then the knockout page
\* is loaded and the script starts afresh there
GoKnockoutClick(stream) ==
  /\ knockout' = tryAutoGenerateKnockout(groups, matches, generatedRounds, knockout, stream)
  /\ IF knockoutThrows(groups, matches, generatedRounds, knockout)
     THEN /\ last' = Done("goKnockout", <<>>, "throws", "none")
          /\ UNCHANGED currentEditingId
     ELSE /\ last' = Done("goKnockout", <<>>, "undefined",
                          IF knockoutDue(generatedRounds, matches, knockout)
                          THEN "generated" ELSE "none")
          /\ currentEditingId' = <<>>
  /\ UNCHANGED <<teams, groups, matches, generatedRounds, submissions>>

(***************************************************************************)
(* What earlier visits of the page may have left in localStorage           *)
(***************************************************************************)
\* the goals sheet s gives the k-th match
sheetHome(s, k) == (k * s + k \div 3) % (MaxGoals + 1)
sheetAway(s, k) == (k \div 2 + s) % (MaxGoals + 1)

\* groups of a 24-name roster in order, the three rounds generated in order
earlierGroups == createGroupsGroups(slice(PlainRoster(RosterMin), 0, 24))
earlierMatches ==
  Then(generateRoundFrom(earlierGroups, 0, <<>>, 1), LAMBDA round1 :
    Then(generateRoundFrom(earlierGroups, 0, round1, 2), LAMBDA round2 :
      generateRoundFrom(earlierGroups, 0, round2, 3)))

\* every match but the last entered from sheet s
earlierPlayed(s) ==
  array([k \in DOMAIN earlierMatches |->
     IF k < Len(earlierMatches)
     THEN scored(earlierMatches[k], sheetHome(s, k), sheetAway(s, k))
     ELSE earlierMatches[k]])

Stored(gs, ms, rs, ko) == [groups |-> gs, matches |-> ms, generatedRounds |-> rs, knockout |-> ko]

EarlierVisits ==
  {Stored(Absent, Absent, Absent, Absent)}
  \cup {Stored(Val(earlierGroups), Val(earlierPlayed(s)), Val(3), Null) : s \in 1..NumSheets}

Init ==
  /\ teams \in Rosters
  /\ \E e \in EarlierVisits :
       /\ groups = e.groups
       /\ matches = e.matches
       /\ generatedRounds = e.generatedRounds
       /\ knockout = e.knockout
  /\ currentEditingId = <<>>
  /\ submissions = 0
  /\ last = Done("load", <<>>, "undefined", "none")

Next ==
  \/ \E randomize \in BOOLEAN, stream \in 1..NumStreams :
       CreateGroups(randomize, stream)
  \/ \E roundNumber \in RoundInputs : GenerateRound(roundNumber)
  \/ \E matchId \in enterScoreIds : OpenScoreModal(matchId)
  \/ CloseScoreModal
  \/ \E e \in ScoreEntries, stream \in 1..NumDraws :
       SaveScoreFromModal(e[1], e[2], stream)
  \/ \E stream \in 1..NumDraws : TryAutoGenerateKnockout(stream)
  \/ \E confirmed \in BOOLEAN : ResetTournament(confirmed)
  \/ \E stream \in 1..NumStreams : InitGroupsPage(stream)

Spec == Init /\ [][Next]_vars

\* the page as its user and the pages linking to it drive it: the buttons, the
\* modal, and the three functions on window
PageNext ==
  \/ \E stream \in 1..NumStreams : WindowCreateGroups(stream)
  \/ \E stream \in 1..NumStreams : GenerateGroupsClick(stream)
  \/ \E n \in RoundInputs, stream \in 1..NumDraws : WindowGenerateRound(n, stream)
  \/ GenerateRoundClick
  \/ \E stream \in 1..NumDraws : GoKnockoutClick(stream)
  \/ \E matchId \in enterScoreIds : OpenScoreModal(matchId)
  \/ CloseScoreModal
  \/ \E e \in ScoreEntries, stream \in 1..NumDraws :
       SaveScoreFromModal(e[1], e[2], stream)
  \/ \E confirmed \in BOOLEAN : ResetTournament(confirmed)
  \/ \E stream \in 1..NumStreams : InitGroupsPage(stream)

PageSpec == Init /\ [][PageNext]_vars

\* the page driven through its buttons and its modal alone
FlowNext ==
  \/ \E stream \in 1..NumStreams : GenerateGroupsClick(stream)
  \/ GenerateRoundClick
  \/ \E stream \in 1..NumDraws : GoKnockoutClick(stream)
  \/ \E matchId \in enterScoreIds : OpenScoreModal(matchId)
  \/ CloseScoreModal
  \/ \E e \in ScoreEntries, stream \in 1..NumDraws :
       SaveScoreFromModal(e[1], e[2], stream)
  \/ \E stream \in 1..NumStreams : InitGroupsPage(stream)

FlowSpec == Init /\ [][FlowNext]_vars

\* a second page open on the same localStorage (another tab), with its own
\* currentEditingId: a click on one of its enter-score buttons and on its Save
\* stores the score and runs tryAutoGenerateKnockout, and leaves this page's
\* currentEditingId as it is
OtherPageSubmits(matchId, hg, ag, stream) ==
  LET ms == orEmpty(load(matches))
      idx == findIndex(ms, matchId)
      saved == Val([ms EXCEPT ![idx + 1] = scored(@, hg, ag)])
  IN  /\ idx # -1
      /\ matches' = saved
      /\ knockout' = tryAutoGenerateKnockout(groups, saved, generatedRounds,
                                             knockout, stream)
      /\ last' = IF knockoutThrows(groups, saved, generatedRounds, knockout)
                 THEN Done("otherPage", <<>>, "throws", "none")
                 ELSE Done("otherPage", <<>>, "undefined",
                           IF knockoutDue(generatedRounds, saved, knockout)
                           THEN "generated" ELSE "none")
      /\ UNCHANGED <<teams, groups, generatedRounds, currentEditingId, submissions>>

\* the modal of this page, and the other page
TabsNext ==
  \/ \E matchId \in enterScoreIds : OpenScoreModal(matchId)
  \/ CloseScoreModal
  \/ \E e \in ScoreEntries, stream \in 1..NumDraws :
       SaveScoreFromModal(e[1], e[2], stream)
  \/ \E matchId \in enterScoreIds, hg \in 0..MaxGoals, ag \in 0..MaxGoals,
        stream \in 1..NumDraws :
       OtherPageSubmits(matchId, hg, ag, stream)

TabsSpec == Init /\ [][TabsNext]_vars

(***************************************************************************)
(* The Round of 16 draw on its own: the group stage of an earlier visit is  *)
(* complete, and tryAutoGenerateKnockout is called with any of NumShuffles  *)
(* random streams.                                                          *)
(***************************************************************************)
\* the matches of sheet s with the last one entered as hg : ag
completed(s, hg, ag) ==
  array([k \in DOMAIN earlierMatches |->
     IF k < Len(earlierMatches)
     THEN earlierPlayed(s)[k]
     ELSE scored(earlierMatches[k], hg, ag)])

DrawInit ==
  /\ teams = Val(PlainRoster(RosterMin))
  /\ groups = Val(earlierGroups)
  /\ \E s \in 1..NumSheets, hg \in 0..MaxGoals, ag \in 0..MaxGoals :
       matches = Val(completed(s, hg, ag))
  /\ generatedRounds = Val(3)
  /\ knockout = Null
  /\ currentEditingId = <<>>
  /\ submissions = 0
  /\ last = Done("load", <<>>, "undefined", "none")

DrawNext == \E stream \in 1..NumShuffles : TryAutoGenerateKnockout(stream)

DrawSpec == DrawInit /\ [][DrawNext]_vars

(***************************************************************************)
(* The page started on a localStorage in which something else has left,    *)
(* under one of the four keys, a text that does not parse or a value of     *)
(* another shape.                                                           *)
(***************************************************************************)
\* the stored values e with the one under key (1..4) replaced by bad
spoiled(e, key, bad) ==
  Stored(IF key = 1 THEN bad ELSE e.groups,
         IF key = 2 THEN bad ELSE e.matches,
         IF key = 3 THEN bad ELSE e.generatedRounds,
         IF key = 4 THEN bad ELSE e.knockout)

SpoiledVisits ==
  {spoiled(e, key, bad) : e \in EarlierVisits \ {Stored(Absent, Absent, Absent, Absent)},
                          key \in 1..4, bad \in {Garbled, Malformed}}

SpoiledInit ==
  /\ teams \in Rosters
  /\ \E e \in SpoiledVisits :
       /\ groups = e.groups
       /\ matches = e.matches
       /\ generatedRounds = e.generatedRounds
       /\ knockout = e.knockout
  /\ currentEditingId = <<>>
  /\ submissions = 0
  /\ last = Done("load", <<>>, "undefined", "none")

SpoiledSpec == SpoiledInit /\ [][Next]_vars

(***************************************************************************)
(* The copy of the script in src/unnamed/part_000. Its computeStandings,   *)
(* getBestFourThirds, pool and r16 are those of src/script.js for the      *)
(* records it makes; its createGroups, generateRound and                   *)
(* tryAutoGenerateKnockout are not.                                        *)
(***************************************************************************)
\* the longest match list the copy is followed to
MaxMatches == 48

\* matchId: `G-${g}-R${r}-${a}-vs-${b}`, whitespace runs of the names as "_"
part000matchId(g, r, a, b) ==
  <<"G", "-", Digits[g + 1], "-", "R", Digits[r + 1], "-">>
  \o replaceWs(a, FALSE) \o <<"-", "v", "s", "-">> \o replaceWs(b, FALSE)

part000makeMatch(groupIndex, round, home, away) ==
  [ id |-> part000matchId(groupIndex, round, home, away),
    groupIndex |-> groupIndex,
    groupName |-> groupLetter(groupIndex),
    round |-> round,
    home |-> home,
    away |-> away,
    homeGoals |-> NoGoals,
    awayGoals |-> NoGoals,
    status |-> "scheduled" ]

\* the matches pushed for a group in a round: none for a round outside 1..3
part000pushed(grp, gi, roundNumber) ==
  IF roundNumber = 1
  THEN <<part000makeMatch(gi, 1, grp[1], grp[2]), part000makeMatch(gi, 1, grp[3], grp[4])>>
  ELSE IF roundNumber = 2
  THEN <<part000makeMatch(gi, 2, grp[1], grp[3]), part000makeMatch(gi, 2, grp[2], grp[4])>>
  ELSE IF roundNumber = 3
  THEN <<part000makeMatch(gi, 3, grp[1], grp[4]), part000makeMatch(gi, 3, grp[2], grp[3])>>
  ELSE <<>>

\* groups.forEach((grp, gi) => ...), from group gi on: every match is pushed
RECURSIVE part000generateRoundFrom(_, _, _, _)
part000generateRoundFrom(gs, gi, ms, roundNumber) ==
  IF gi >= Len(gs) THEN ms
  ELSE IF Len(gs[gi + 1]) # 4
       THEN part000generateRoundFrom(gs, gi + 1, ms, roundNumber)
       ELSE Then(ms \o part000pushed(gs[gi + 1], gi, roundNumber),
                 LAMBDA pushed : part000generateRoundFrom(gs, gi + 1, pushed, roundNumber))

\* the match list generateRound(n) of the copy saves
part000generateRound(n) ==
  Val(part000generateRoundFrom(load(groups).v, 0, orEmpty(load(matches)), n))

\* generateRound(roundNumber) of the copy: [] with no groups, else the matches
\* are saved and the counter is the round passed
Part000GenerateRound(roundNumber) ==
  IF load(groups) = Null
  THEN /\ last' = Done("part_000 generateRound", <<roundNumber>>, "empty", "none")
       /\ UNCHANGED <<teams, stored, currentEditingId, submissions>>
  ELSE /\ Len(orEmpty(load(matches))) + 12 <= MaxMatches
       /\ matches' = part000generateRound(roundNumber)
       /\ generatedRounds' = Val(roundNumber)
       /\ last' = Done("part_000 generateRound", <<roundNumber>>, "matches", "none")
       /\ UNCHANGED <<teams, groups, knockout, currentEditingId, submissions>>

\* [...list].sort(() => Math.random() - 0.5): the order a random comparator
\* leaves is some permutation; the permutations taken are those of shuffle
part000shuffled(list, stream) == shuffle(list, stream)

\* createGroups of the copy: no roster check, no write to ef_knockout; a
\* missing roster makes [...teams] throw
Part000CreateGroups(stream) ==
  IF teams.k # "val"
  THEN /\ last' = Done("part_000 createGroups", <<>>, "throws", "none")
       /\ UNCHANGED <<teams, stored, currentEditingId, submissions>>
  ELSE /\ groups' = Val(createGroupsGroups(part000shuffled(teams.v, stream)))
       /\ matches' = Val(<<>>)
       /\ generatedRounds' = Val(0)
       /\ last' = Done("part_000 createGroups", <<>>, "groups", "none")
       /\ UNCHANGED <<teams, knockout, currentEditingId, submissions>>

\* whether tryAutoGenerateKnockout of the copy goes on to draw: a stored
\* bracket is not looked for
part000knockoutDue(rs, ms) ==
  /\ ~lessThan(load(rs), 3)
  /\ playedCount(orEmpty(load(ms))) >= totalGroupMatches

\* one pass of the copy's repair loop at index i: the away half only
part000repairAt(homeSlice, awaySlice, i) ==
  IF homeSlice[i + 1].group # awaySlice[i + 1].group
  THEN <<homeSlice, awaySlice>>
  ELSE LET ja == awaySwap(homeSlice, awaySlice, i)
       IN  IF ja < 8 THEN <<homeSlice, swap(awaySlice, i, ja)>>
           ELSE <<homeSlice, awaySlice>>

RECURSIVE part000repairFrom(_, _, _)
part000repairFrom(homeSlice, awaySlice, i) ==
  IF i >= 8 THEN <<homeSlice, awaySlice>>
  ELSE Then(part000repairAt(homeSlice, awaySlice, i),
            LAMBDA r : part000repairFrom(r[1], r[2], i + 1))

\* the bracket the copy draws from the standings
part000drawBracket(sorted, stream) ==
  Then(assemblePool(sorted), LAMBDA full :
    Then(part000shuffled(full, stream), LAMBDA shuffled :
      Then(part000repairFrom(slice(shuffled, 0, 8), slice(shuffled, 8, 16), 0), LAMBDA s :
        [r16 |-> makeR16(s[1], s[2]), qf |-> <<>>, sf |-> <<>>, final |-> <<>>])))

\* the value tryAutoGenerateKnockout of the copy leaves under ef_knockout
part000tryAutoGenerateKnockout(gs, ms, rs, ko, stream) ==
  IF ~part000knockoutDue(rs, ms) \/ poolShort(orEmpty(load(gs))) THEN ko
  ELSE Then(computeStandingsOf(orEmpty(load(gs)), orEmpty(load(ms))),
            LAMBDA sorted : Val(part000drawBracket(sorted, stream)))

\* tryAutoGenerateKnockout of the copy, as a click on Go to Knockout runs it
Part000TryAutoGenerateKnockout(stream) ==
  /\ knockout' = part000tryAutoGenerateKnockout(groups, matches, generatedRounds,
                                                knockout, stream)
  /\ last' = IF part000knockoutDue(generatedRounds, matches)
             THEN IF poolShort(orEmpty(load(groups)))
                  THEN Done("part_000 tryAutoGenerateKnockout", <<>>, "throws", "none")
                  ELSE Done("part_000 tryAutoGenerateKnockout", <<>>, "undefined", "generated")
             ELSE Done("part_000 tryAutoGenerateKnockout", <<>>, "undefined", "none")
  /\ UNCHANGED <<teams, groups, matches, generatedRounds, currentEditingId, submissions>>

\* window.generateRound(n) of the copy: generateRound(n); the counter saved
\* again; tryAutoGenerateKnockout()
Part000WindowGenerateRound(n, stream) ==
  LET ms == IF load(groups) = Null THEN matches ELSE part000generateRound(n)
  IN  /\ Len(orEmpty(load(matches))) + 12 <= MaxMatches
      /\ matches' = ms
      /\ generatedRounds' = Val(n)
      /\ knockout' = part000tryAutoGenerateKnockout(groups, ms, Val(n), knockout, stream)
      /\ last' = Done("part_000 window.generateRound", <<n>>, "undefined",
                      IF part000knockoutDue(Val(n), ms) /\ ~poolShort(orEmpty(load(groups)))
                      THEN "generated" ELSE "none")
      /\ UNCHANGED <<teams, groups, currentEditingId, submissions>>

\* the match m as the copy makes it: with the copy's id
part000record(m) == [m EXCEPT !.id = part000matchId(m.groupIndex, m.round, m.home, m.away)]

\* what earlier visits left: nothing, or a complete group stage of the copy
Part000Visits ==
  {Stored(Absent, Absent, Absent, Absent)}
  \cup {Stored(Val(earlierGroups),
               Val(array([k \in DOMAIN earlierMatches |-> part000record(completed(s, hg, ag)[k])])),
               Val(3), Absent) :
          s \in 1..NumSheets, hg \in 0..MaxGoals, ag \in 0..MaxGoals}

Part000Init ==
  /\ teams \in {Null, Val(PlainRoster(RosterMin))}
  /\ \E e \in Part000Visits :
       /\ groups = e.groups
       /\ matches = e.matches
       /\ generatedRounds = e.generatedRounds
       /\ knockout = e.knockout
  /\ currentEditingId = <<>>
  /\ submissions = 0
  /\ last = Done("load", <<>>, "undefined", "none")

Part000Next ==
  \/ \E stream \in 1..NumStreams : Part000CreateGroups(stream)
  \/ \E roundNumber \in RoundInputs : Part000GenerateRound(roundNumber)
  \/ \E n \in RoundInputs, stream \in 1..NumDraws : Part000WindowGenerateRound(n, stream)
  \/ \E stream \in 1..NumDraws : Part000TryAutoGenerateKnockout(stream)

Part000Spec == Part000Init /\ [][Part000Next]_vars
(***************************************************************************)
(* Properties of createGroups                                              *)
(***************************************************************************)
\* the last call was a createGroups that returned groups
createdGroups == last.op = "createGroups" /\ last.ret = "groups"

\* the places of a stored partition: <<group, seat>>
seats(gs) == {p \in (DOMAIN gs) \X (1..GroupSize) : p[2] <= Len(gs[p[1]])}

\* the roster has at least RosterMin names, all different
uniqueRoster ==
  /\ teams.k = "val"
  /\ Len(teams.v) >= RosterMin
  /\ \A i, j \in DOMAIN teams.v : i # j => teams.v[i] # teams.v[j]

\* C1: for a roster of at least 24 unique names and either value of randomize,
\* createGroups stores 6 groups of exactly 4 names, no team appears twice and
\* every one of the first 24 roster names appears in some group.
C1_SixGroupsOfTheFirst24 ==
  (createdGroups /\ uniqueRoster) =>
    /\ groups.k = "val"
    /\ Len(groups.v) = NumGroups
    /\ \A g \in DOMAIN groups.v : Len(groups.v[g]) = GroupSize
    /\ \A p, q \in seats(groups.v) :
         p # q => groups.v[p[1]][p[2]] # groups.v[q[1]][q[2]]
    /\ \A k \in 1..RosterMin :
         \E p \in seats(groups.v) : groups.v[p[1]][p[2]] = teams.v[k]

\* C2: a successful createGroups, from any prior state, stores groups cut from
\* the roster and leaves the match list empty, the counter at 0 and the bracket
\* null.
C2_CreateGroupsResets ==
  createdGroups =>
    /\ groups.k = "val"
    /\ Len(groups.v) = NumGroups
    /\ \A p \in seats(groups.v) :
         \E k \in DOMAIN teams.v : groups.v[p[1]][p[2]] = teams.v[k]
    /\ matches = Val(<<>>)
    /\ generatedRounds = Val(0)
    /\ knockout = Null

\* createGroups has just replaced a finished group stage: 36 matches, counter 3,
\* a bracket
C2_Witness ==
  /\ createdGroups
  /\ last.was.count = totalGroupMatches
  /\ last.was.rounds = Val(3)
  /\ last.was.bracket

\* C3: with the roster missing or shorter than 24, createGroups alerts, returns
\* null and leaves the four keys as they were.
C3_ShortRosterChangesNothing ==
  [][ (last'.op = "createGroups" /\ (teams.k # "val" \/ Len(teams.v) < RosterMin))
        => (last'.alert = "teams" /\ last'.ret = "null" /\ stored' = stored) ]_vars

\* createGroups has just failed on a roster one name short, over a stored group
\* stage
C3_Witness ==
  /\ last.op = "createGroups"
  /\ last.ret = "null"
  /\ teams.k = "val"
  /\ Len(teams.v) = RosterMin - 1
  /\ groups.k = "val"
  /\ last.was.count = totalGroupMatches
  /\ generatedRounds = Val(3)

\* C4: with randomize = false group i holds roster entries 4i..4i+3 in order,
\* whatever was stored before; so createGroups(false) after a reset gives the
\* partition createGroups(false) gave before it.
C4_UnshuffledGroupsFollowTheRoster ==
  (createdGroups /\ last.arg = <<FALSE>>) =>
    /\ groups.k = "val"
    /\ Len(groups.v) = NumGroups
    /\ \A i \in 0..(NumGroups - 1) :
         /\ Len(groups.v[i + 1]) = GroupSize
         /\ \A k \in 0..(GroupSize - 1) :
              groups.v[i + 1][k + 1] = teams.v[GroupSize * i + k + 1]

\* createGroups(false) has just run on cleared keys, in a session that had
\* stored a score before the reset
C4_Witness ==
  /\ createdGroups
  /\ last.arg = <<FALSE>>
  /\ last.was.rounds = Absent
  /\ submissions > 0
(***************************************************************************)
(* Properties of generateRound                                             *)
(***************************************************************************)
\* the stored match list, [] when there is none
storedMatches == orEmpty(load(matches))

\* the records of group gi in a match list, as <<round, home, away>>
fixturesOf(ms, gi) ==
  {<<ms[i].round, ms[i].home, ms[i].away>> : i \in {k \in DOMAIN ms : ms[k].groupIndex = gi}}

\* the round-robin template of a group
template(group) ==
  { <<1, group[1], group[2]>>, <<1, group[3], group[4]>>,
    <<2, group[1], group[3]>>, <<2, group[2], group[4]>>,
    <<3, group[1], group[4]>>, <<3, group[2], group[3]>> }

\* the match list holds rounds 1, 2, 3, generated in this order
roundsInOrder(ms) ==
  /\ \A r \in {1, 2, 3} : \E i \in DOMAIN ms : ms[i].round = r
  /\ \A i, j \in DOMAIN ms : i < j => ms[i].round <= ms[j].round

\* the names of a group are all different
uniqueGroup(group) ==
  \A a, b \in DOMAIN group : a # b => group[a] # group[b]

\* C5: for a group of 4 unique names, generateRound for rounds 1, 2, 3 in order
\* gives exactly 6 fixtures of that group: T1-T2, T3-T4, T1-T3, T2-T4, T1-T4,
\* T2-T3 (each team once per round, each pair once).
C5_SixFixturesPerGroup ==
  (groups.k = "val" /\ roundsInOrder(storedMatches)) =>
    \A g \in DOMAIN groups.v :
      (Len(groups.v[g]) = GroupSize /\ uniqueGroup(groups.v[g])) =>
        /\ fixturesOf(storedMatches, g - 1) = template(groups.v[g])
        /\ Cardinality({k \in DOMAIN storedMatches :
                          storedMatches[k].groupIndex = g - 1}) = 6

\* no two stored matches share an id
uniqueIds ==
  \A i, j \in DOMAIN storedMatches :
    i # j => storedMatches[i].id # storedMatches[j].id

\* C6: generateRound(n) called when fixtures of round n exist adds no match and
\* leaves every record, goals and status included, as it was; and no two stored
\* matches ever share an id.
C6_RegeneratingARoundChangesNothing ==
  /\ []uniqueIds
  /\ [][ ( /\ last'.op = "generateRound"
           /\ last'.ret = "matches"
           /\ \E i \in DOMAIN storedMatches :
                storedMatches[i].round = last'.arg[1] )
         => matches' = matches ]_vars

\* generateRound(n) has just run over a list that held round n, with played
\* matches of round n in it
C6_Witness ==
  /\ last.op = "generateRound"
  /\ last.ret = "matches"
  /\ last.was.count = Len(storedMatches)
  /\ \E i \in DOMAIN storedMatches :
       /\ storedMatches[i].round = last.arg[1]
       /\ storedMatches[i].status = "played"
       /\ storedMatches[i].homeGoals # NoGoals

\* C7: generateRound with no groups stored, or with a round number outside
\* {1,2,3}, changes none of the four keys.
C7_RefusedRoundChangesNothing ==
  [][ (last'.op = "generateRound"
         /\ (load(groups) = Null \/ last'.arg[1] \notin {1, 2, 3}))
      => stored' = stored ]_vars

\* generateRound has just been refused for its round number, over a stored list
\* of matches
C7_Witness ==
  /\ last.op = "generateRound"
  /\ last.arg[1] \notin {1, 2, 3}
  /\ groups.k = "val"
  /\ Len(storedMatches) > 0
  /\ generatedRounds.k = "val"
  /\ generatedRounds.v > 0

\* C8: after generateRound(n) with groups stored and n in {1,2,3} the counter is
\* n, whatever it was before.
C8_CounterIsTheRoundPassed ==
  (last.op = "generateRound" /\ load(groups) # Null /\ last.arg[1] \in {1, 2, 3})
    => generatedRounds = Val(last.arg[1])

\* generateRound(1) has just run with the counter at 3
C8_Witness ==
  /\ last.op = "generateRound"
  /\ last.arg = <<1>>
  /\ last.was.rounds = Val(3)
  /\ generatedRounds = Val(1)
(***************************************************************************)
(* Properties of computeStandings                                          *)
(***************************************************************************)
\* the stored groups, [] when there are none
storedGroups == orEmpty(load(groups))

\* the played matches of group g (1-based) in the stored list
playedOf(g) ==
  {i \in DOMAIN storedMatches :
     storedMatches[i].status = "played" /\ storedMatches[i].groupIndex = g - 1}

\* the goals team t scored and conceded in match i
goalsFor(i, t) ==
  IF storedMatches[i].home = t THEN num(storedMatches[i].homeGoals)
  ELSE num(storedMatches[i].awayGoals)
goalsAgainst(i, t) ==
  IF storedMatches[i].home = t THEN num(storedMatches[i].awayGoals)
  ELSE num(storedMatches[i].homeGoals)

\* the sum of goals(i) over the matches i of P (a goal entry is one digit)
total(P, goals(_)) ==
  LET c(n) == Cardinality({i \in P : goals(i) = n})
  IN  c(1) + 2 * c(2) + 3 * c(3) + 4 * c(4) + 5 * c(5)
      + 6 * c(6) + 7 * c(7) + 8 * c(8) + 9 * c(9)

\* row is the 3/1/0 tally of team t over the matches P of its group
tallies(row, t, P) ==
  LET mine == {i \in P : t \in {storedMatches[i].home, storedMatches[i].away}}
      won == {i \in mine : goalsFor(i, t) > goalsAgainst(i, t)}
      drawn == {i \in mine : goalsFor(i, t) = goalsAgainst(i, t)}
      lost == {i \in mine : goalsFor(i, t) < goalsAgainst(i, t)}
  IN  /\ row.played = Cardinality(mine)
      /\ row.w = Cardinality(won)
      /\ row.d = Cardinality(drawn)
      /\ row.l = Cardinality(lost)
      /\ row.gf = total(mine, LAMBDA i : goalsFor(i, t))
      /\ row.ga = total(mine, LAMBDA i : goalsAgainst(i, t))
      /\ row.pts = 3 * Cardinality(won) + Cardinality(drawn)

\* C9: computeStandings returns one row per team per group, and its played, w,
\* d, l, gf, ga and pts are the 3/1/0 tally over exactly the played matches of
\* that group with the team at home or away; scheduled matches add nothing.
C9_StandingsTallyPlayedMatches ==
  LET standings == computeStandings
  IN  /\ DOMAIN standings = DOMAIN storedGroups
      /\ \A g \in DOMAIN storedGroups :
           LET P == playedOf(g)
           IN  /\ Len(standings[g]) = Len(storedGroups[g])
               /\ \A k \in DOMAIN storedGroups[g] :
                    \E r \in DOMAIN standings[g] :
                      /\ standings[g][r].team = storedGroups[g][k]
                      /\ tallies(standings[g][r], storedGroups[g][k], P)

\* one match of a group is played, a 1-0 home win, the others of the group are
\* scheduled, and the winner leads the group with 3 points and gd 1
C9_Witness ==
  \E g \in DOMAIN storedGroups :
    /\ Cardinality(playedOf(g)) = 1
    /\ \E i \in DOMAIN storedMatches :
         storedMatches[i].groupIndex = g - 1 /\ storedMatches[i].status = "scheduled"
    /\ \E i \in playedOf(g) :
         /\ storedMatches[i].homeGoals = Goals(1)
         /\ storedMatches[i].awayGoals = Goals(0)
         /\ computeStandings[g][1].team = storedMatches[i].home
         /\ computeStandings[g][1].pts = 3
         /\ computeStandings[g][1].gd = 1
         /\ computeStandings[g][1].position = 1

\* the matches of group g (1-based) in the stored list
matchesOf(g) == {i \in DOMAIN storedMatches : storedMatches[i].groupIndex = g - 1}

\* all 6 matches of group g are there and played
complete(g) == Cardinality(matchesOf(g)) = 6 /\ playedOf(g) = matchesOf(g)

drawsOf(g) ==
  {i \in playedOf(g) : num(storedMatches[i].homeGoals) = num(storedMatches[i].awayGoals)}

\* C10: every row of computeStandings has played = w+d+l, pts = 3w+d and
\* gd = gf-ga; and in a group whose 6 matches are all played the points of the 4
\* rows sum to 3 * (decisive matches) + 2 * (draws).
C10_RowsAddUp ==
  LET standings == computeStandings
  IN  \A g \in DOMAIN standings :
        /\ \A r \in DOMAIN standings[g] :
             LET row == standings[g][r]
             IN  /\ row.played = row.w + row.d + row.l
                 /\ row.pts = 3 * row.w + row.d
                 /\ row.gd = row.gf - row.ga
        /\ (complete(g) /\ Len(standings[g]) = GroupSize) =>
             standings[g][1].pts + standings[g][2].pts
               + standings[g][3].pts + standings[g][4].pts
             = 3 * Cardinality(playedOf(g) \ drawsOf(g)) + 2 * Cardinality(drawsOf(g))

\* a score has just been saved, and a group has its 6 matches played, draws and
\* decisive matches among them
C10_Witness ==
  \E g \in DOMAIN storedGroups :
    /\ last.op = "saveScoreFromModal"
    /\ complete(g)
    /\ drawsOf(g) # {}
    /\ drawsOf(g) # playedOf(g)
    /\ computeStandings[g][1].pts > 0

(***************************************************************************)
(* Properties of the ranking                                               *)
(***************************************************************************)
\* name a comes before name b in the alphabet: at the first place where they
\* differ a has the earlier character, or a ends there
alphabetical(a, b) ==
  \E i \in 1..(Len(b)) :
    /\ i <= Len(a) + 1
    /\ \A k \in 1..(i - 1) : a[k] = b[k]
    /\ (i = Len(a) + 1 \/ rank(a[i]) < rank(b[i]))

\* row a ranks above row b: more points, then the better goal difference, then
\* more goals scored, then the earlier name
ranksAbove(a, b) ==
  \/ a.pts > b.pts
  \/ a.pts = b.pts /\ a.gd > b.gd
  \/ a.pts = b.pts /\ a.gd = b.gd /\ a.gf > b.gf
  \/ a.pts = b.pts /\ a.gd = b.gd /\ a.gf = b.gf /\ alphabetical(a.team, b.team)

\* rows a and b are level on points, goal difference and goals scored
level(a, b) == a.pts = b.pts /\ a.gd = b.gd /\ a.gf = b.gf

\* C11: within each group computeStandings orders the rows by points, then goal
\* difference, then goals-for (all descending), then name ascending; of two rows
\* of a group exactly one ranks above the other, the positions are exactly
\* 1..4, each taken once, and of two level rows the alphabetically earlier name
\* has the smaller position.
C11_RowsRankedByPointsGdGfName ==
  LET standings == computeStandings
  IN  \A g \in DOMAIN standings :
        LET rows == standings[g]
        IN  /\ Len(rows) = GroupSize
            /\ \A i \in DOMAIN rows : rows[i].position = i
            /\ \A i, j \in DOMAIN rows :
                 /\ i < j => ranksAbove(rows[i], rows[j])
                 /\ i # j => (ranksAbove(rows[i], rows[j]) # ranksAbove(rows[j], rows[i]))
                 /\ (level(rows[i], rows[j]) /\ alphabetical(rows[i].team, rows[j].team))
                      => rows[i].position < rows[j].position

\* matches are played; some group orders a pair of rows by points, some group
\* one by goals-for alone against the alphabet, and some group one that has
\* played by name alone
C11_Witness ==
  LET standings == computeStandings
      somePair(P(_, _)) ==
        \E g \in DOMAIN standings : \E i, j \in DOMAIN standings[g] :
          i < j /\ P(standings[g][i], standings[g][j])
  IN  /\ somePair(LAMBDA a, b : a.pts > b.pts)
      /\ somePair(LAMBDA a, b : /\ a.pts = b.pts /\ a.gd = b.gd /\ a.gf > b.gf
                                /\ alphabetical(b.team, a.team))
      /\ somePair(LAMBDA a, b : level(a, b) /\ a.played > 0)

(***************************************************************************)
(* Properties of getBestFourThirds                                         *)
(***************************************************************************)
\* the groups of standings that have a row at position 3
withThird(standings) ==
  {g \in DOMAIN standings : \E r \in DOMAIN standings[g] : standings[g][r].position = 3}

\* C12: getBestFourThirds collects exactly the position-3 row of each group, at
\* most one per group, tagged with that group's letter, sorts them by points,
\* goal difference, goals-for (descending) and name (ascending), and returns as
\* qualified the first min(4, n) of the sorted list.
C12_QualifiedThirdsAreThePrefix ==
  LET standings == computeStandings
      best == getBestFourThirds(standings)
      n == Len(best.all)
  IN  /\ n = Cardinality(withThird(standings))
      /\ \A g \in withThird(standings) :
           \E k \in DOMAIN best.all :
             /\ best.all[k].group = Letters[g]
             /\ \E r \in DOMAIN standings[g] :
                  /\ standings[g][r].position = 3
                  /\ best.all[k].team = standings[g][r].team
                  /\ best.all[k].pts = standings[g][r].pts
                  /\ best.all[k].gd = standings[g][r].gd
                  /\ best.all[k].gf = standings[g][r].gf
      /\ \A i, j \in DOMAIN best.all : i < j => ranksAbove(best.all[i], best.all[j])
      /\ Len(best.qualified) = (IF n < 4 THEN n ELSE 4)
      /\ \A k \in DOMAIN best.qualified : best.qualified[k] = best.all[k]

\* six thirds with matches played, of which the fourth and the fifth are level
\* on points, goal difference and goals-for, and two are apart on points
C12_Witness ==
  LET best == getBestFourThirds(computeStandings)
  IN  /\ Len(best.all) = NumGroups
      /\ Len(best.qualified) = 4
      /\ best.all[1].played > 0
      /\ best.all[1].pts > best.all[6].pts
      /\ level(best.all[4], best.all[5])
      /\ best.all[4].group # "A"

(***************************************************************************)
(* Properties of tryAutoGenerateKnockout                                   *)
(***************************************************************************)
\* a bracket with a non-empty r16 is stored under slot
hasBracket(slot) == slot.k = "val" /\ Len(slot.v.r16) > 0

\* the list under slot holds all 36 group matches, every one played
allPlayed(slot) ==
  /\ slot.k = "val"
  /\ Len(slot.v) = NumGroups * 6
  /\ \A i \in DOMAIN slot.v : slot.v[i].status = "played"

\* C13: tryAutoGenerateKnockout writes a bracket only when the counter is 3,
\* all 36 group matches are played and no bracket with a non-empty r16 is
\* stored (within a score submission: once the score is saved); when any of
\* these fails the call is silent and changes none of the four keys.
C13_BracketOnlyWhenDue ==
  [][ /\ (hasBracket(knockout') /\ knockout' # knockout) =>
           /\ last'.op \in {"tryAutoGenerateKnockout", "saveScoreFromModal"}
           /\ generatedRounds = Val(3)
           /\ allPlayed(matches')
           /\ ~hasBracket(knockout)
      /\ last'.op = "tryAutoGenerateKnockout" =>
           IF generatedRounds = Val(3) /\ allPlayed(matches) /\ ~hasBracket(knockout)
           THEN hasBracket(knockout') /\ stored' # stored
           ELSE stored' = stored /\ last'.alert = "none"
    ]_vars

\* a call refused although all 36 matches are played and no bracket is stored:
\* the counter is 2
C13_Witness ==
  /\ last.op = "tryAutoGenerateKnockout"
  /\ last.alert = "none"
  /\ allPlayed(matches)
  /\ generatedRounds = Val(2)
  /\ knockout = Null

\* C14: once a bracket with a non-empty r16 is stored, no tryAutoGenerateKnockout
\* call, generateRound call or score submission changes it; it changes only
\* through createGroups or a reset.
C14_BracketDrawnOnce ==
  [][ (hasBracket(knockout) /\ knockout' # knockout) =>
        /\ last'.op \in {"createGroups", "resetTournament"}
        /\ ~hasBracket(knockout')
    ]_vars

\* a call of tryAutoGenerateKnockout that found all 36 matches played, the
\* counter at 3 and a bracket stored
C14_Witness ==
  /\ last.op = "tryAutoGenerateKnockout"
  /\ last.was.bracket
  /\ last.was.rounds = Val(3)
  /\ last.was.count = NumGroups * 6
  /\ allPlayed(matches)
  /\ hasBracket(knockout)

(***************************************************************************)
(* Properties of the Round of 16 draw                                      *)
(***************************************************************************)
\* the stored fixtures of the Round of 16, [] when there is no bracket
r16 == IF knockout.k = "val" THEN knockout.v.r16 ELSE <<>>

\* the group (1-based) of the stored partition that team belongs to
groupOf(team) ==
  CHOOSE g \in DOMAIN storedGroups : \E k \in DOMAIN storedGroups[g] : storedGroups[g][k] = team

\* the fixtures between two teams of one group
clashes == {k \in DOMAIN r16 : groupOf(r16[k].home) = groupOf(r16[k].away)}

\* the home teams of r16 can be paired with its away teams, each with a team
\* of another group: every set of home teams has at least as many away teams
\* outside the groups it shares (Hall's condition)
clashFreeExists ==
  \A H \in SUBSET (DOMAIN r16) :
    Cardinality({a \in DOMAIN r16 :
                   \E h \in H : groupOf(r16[h].home) # groupOf(r16[a].away)})
      >= Cardinality(H)

\* the group stage is over: three rounds generated, all 36 matches played
stageComplete == generatedRounds = Val(3) /\ allPlayed(matches)

\* the pairing of a shuffled pool before any repair
unrepaired(pool, stream) ==
  makeR16(slice(shuffle(pool, stream), 0, 8), slice(shuffle(pool, stream), 8, 16))

\* C15: a generated bracket has exactly 8 fixtures in r16, with ids R16-1 ..
\* R16-8, each scheduled with unset goals, every one of the 16 entrants is in
\* exactly one fixture, as home or as away, and qf, sf and final are empty.
C15_EightFixturesCoverThePool ==
  hasBracket(knockout) =>
    LET pool == assemblePool(computeStandings)
        places == (DOMAIN r16) \X {"home", "away"}
        teamAt(p) == IF p[2] = "home" THEN r16[p[1]].home ELSE r16[p[1]].away
    IN  /\ Len(r16) = 8
        /\ \A k \in DOMAIN r16 :
             /\ r16[k].id = <<"R", "1", "6", "-", Digits[k + 1]>>
             /\ r16[k].status = "scheduled"
             /\ r16[k].homeGoals = NoGoals
             /\ r16[k].awayGoals = NoGoals
        /\ Len(pool) = 16
        /\ \A e \in DOMAIN pool :
             Cardinality({p \in places : teamAt(p) = pool[e].team}) = 1
        /\ knockout.v.qf = <<>>
        /\ knockout.v.sf = <<>>
        /\ knockout.v.final = <<>>

\* a bracket has just been generated by a draw whose repair loop exchanged
\* entrants of the away half
C15_Witness ==
  /\ last.op = "tryAutoGenerateKnockout"
  /\ last.alert = "generated"
  /\ hasBracket(knockout)
  /\ LET pool == assemblePool(computeStandings)
     IN  \E stream \in 1..NumShuffles :
           /\ r16 = makeR16(drawSlices(pool, stream)[1], drawSlices(pool, stream)[2])
           /\ r16 # unrepaired(pool, stream)
           /\ \A k \in DOMAIN r16 : r16[k].home = unrepaired(pool, stream)[k].home

\* C16: when the bracket is generated the pool is the position-1 team of each
\* of the 6 groups, the position-2 team of each and the 4 qualified thirds: 16
\* different teams, each tagged with the letter of the group it belongs to; the
\* bracket is drawn from exactly these teams.
C16_PoolIsWinnersSecondsBestThirds ==
  stageComplete =>
    LET standings == computeStandings
        pool == assemblePool(standings)
        thirds == getBestFourThirds(standings).qualified
        at(g, p) == CHOOSE r \in DOMAIN standings[g] : standings[g][r].position = p
    IN  /\ Len(pool) = 2 * NumGroups + 4
        /\ Len(thirds) = 4
        /\ \A g \in 1..NumGroups :
             /\ pool[g] = [team |-> standings[g][at(g, 1)].team,
                           group |-> Letters[g], seed |-> "1st"]
             /\ pool[NumGroups + g] = [team |-> standings[g][at(g, 2)].team,
                                       group |-> Letters[g], seed |-> "2nd"]
        /\ \A k \in 1..4 :
             pool[2 * NumGroups + k] =
               [team |-> thirds[k].team, group |-> thirds[k].group, seed |-> "3rd"]
        /\ \A i, j \in DOMAIN pool : i # j => pool[i].team # pool[j].team
        /\ \A i \in DOMAIN pool : Letters[groupOf(pool[i].team)] = pool[i].group
        /\ hasBracket(knockout) =>
             {r16[k].home : k \in DOMAIN r16} \cup {r16[k].away : k \in DOMAIN r16}
               = {pool[i].team : i \in DOMAIN pool}

\* a bracket has just been generated, and neither the winners nor the
\* qualified thirds are simply the first names of their groups
C16_Witness ==
  /\ last.op = "tryAutoGenerateKnockout"
  /\ last.alert = "generated"
  /\ hasBracket(knockout)
  /\ LET pool == assemblePool(computeStandings)
     IN  /\ \E g \in 1..NumGroups : pool[g].team # storedGroups[g][1]
         /\ \E k \in 1..3 :
              groupOf(pool[2 * NumGroups + k].team) > groupOf(pool[2 * NumGroups + k + 1].team)

\* C17: the emitted r16 has no fixture between two teams of the same group
\* whenever a clash-free arrangement of its two halves exists.
C17_NoSameGroupFixture ==
  (hasBracket(knockout) /\ clashFreeExists) => clashes = {}

(***************************************************************************)
(* Properties of resetTournament and of the score modal                    *)
(***************************************************************************)
\* C18: resetTournament removes all four keys when the confirmation is
\* accepted and changes none of them when it is declined.
C18_ResetClearsOnlyWhenConfirmed ==
  [][ \A confirmed \in BOOLEAN :
        ResetTournament(confirmed) =>
          IF confirmed
          THEN /\ groups' = Absent
               /\ matches' = Absent
               /\ generatedRounds' = Absent
               /\ knockout' = Absent
          ELSE stored' = stored
    ]_vars

\* a confirmed reset that found groups, 36 matches, the counter at 3 and a
\* bracket
C18_Witness ==
  /\ last.op = "resetTournament"
  /\ last.alert = "reset"
  /\ last.was.count = NumGroups * 6
  /\ last.was.rounds = Val(3)
  /\ last.was.bracket
  /\ stored = <<Absent, Absent, Absent, Absent>>

\* a goals entry that is a number: an optional sign and digits
numeric(text) == text = "-1" \/ \E n \in 0..9 : Digits[n + 1] = text

\* C19: with a match being edited, saveScoreFromModal given a negative or
\* non-numeric home or away entry rejects it with a message, changes none of
\* the four keys and leaves currentEditingId pointing at the same match.
C19_BadEntryIsRejected ==
  [][ \A e \in ScoreEntries, stream \in 1..NumDraws :
        ( /\ currentEditingId # <<>>
          /\ \E k \in 1..2 : e[k] = "-1" \/ ~numeric(e[k])
          /\ SaveScoreFromModal(e[1], e[2], stream) )
        => /\ last'.alert = "goals"
           /\ stored' = stored
           /\ currentEditingId' = currentEditingId
    ]_vars

(***************************************************************************)
(* Properties of the storage boundary                                      *)
(***************************************************************************)
\* the value under a key does not parse, or has another shape than the key's
bad(slot) == slot \in {Garbled, Malformed}

\* the slot with a bad value taken away
healed(slot) == IF bad(slot) THEN Absent ELSE slot

\* C20: with a malformed or unparseable value under one of the four keys, every
\* core operation (createGroups, generateRound, computeStandings,
\* tryAutoGenerateKnockout, score submission) never throws and does what it
\* does with that key absent.
C20_BadValuesCountAsAbsent ==
  /\ []((\E k \in 1..4 : bad(stored[k])) => ~computeStandingsThrows)
  /\ [][ ( /\ \E k \in 1..4 : bad(stored[k])
            /\ last'.op \in {"createGroups", "generateRound",
                              "tryAutoGenerateKnockout", "saveScoreFromModal"} )
          => /\ last'.ret # "throws"
             /\ last'.op = "generateRound" =>
                  IF last'.arg[1] \notin {1, 2, 3} \/ load(healed(groups)) = Null
                  THEN stored' = stored
                  ELSE /\ matches' = Val(generateRoundFrom(load(healed(groups)).v, 0,
                                           orEmpty(load(healed(matches))), last'.arg[1]))
                       /\ generatedRounds' = Val(last'.arg[1])
                       /\ groups' = groups
                       /\ knockout' = knockout
             /\ last'.op = "tryAutoGenerateKnockout" =>
                  \E stream \in 1..NumDraws :
                    knockout' = tryAutoGenerateKnockout(
                                  healed(groups), healed(matches),
                                  healed(generatedRounds), healed(knockout), stream)
        ]_vars

(***************************************************************************)
(* Properties of the stored bracket                                        *)
(***************************************************************************)
\* C21: in every state reached by createGroups, generateRound, score
\* submissions, tryAutoGenerateKnockout and resets, a stored bracket with a
\* non-empty r16 goes with a match list of exactly 36 group matches, 6 of each
\* group, all of them played.
C21_BracketOnlyOverAPlayedStage ==
  hasBracket(knockout) =>
    /\ allPlayed(matches)
    /\ \A g \in 1..NumGroups : Cardinality(matchesOf(g)) = 6

\* a round has been generated again over a stored bracket
C21_Witness ==
  /\ last.op = "generateRound"
  /\ last.ret = "matches"
  /\ last.was.bracket
  /\ hasBracket(knockout)

(***************************************************************************)
(* Properties of the page's entry points                                   *)
(***************************************************************************)
\* C22: whatever createGroups, generateRound (any round number, any order) and
\* score submissions came before, a score submission that is stored and leaves
\* all 36 group matches played leaves a bracket with 8 r16 fixtures stored.
C22_AllPlayedStoresTheBracket ==
  [][ \A e \in ScoreEntries, stream \in 1..NumDraws :
        ( /\ SaveScoreFromModal(e[1], e[2], stream)
          /\ submissions' = submissions + 1
          /\ allPlayed(matches') )
        => /\ hasBracket(knockout')
           /\ Len(knockout'.v.r16) = 8
    ]_vars

\* C24: window.createGroups and the Generate Groups button with a roster
\* shorter than 24, and window.generateRound and the Generate Next Round button
\* with no groups stored, change none of the four keys.
C24_FailedEntryPointsChangeNothing ==
  [][ /\ \A stream \in 1..NumStreams :
           ( /\ rosterShort
             /\ WindowCreateGroups(stream) \/ GenerateGroupsClick(stream) )
           => stored' = stored
      /\ \A n \in RoundInputs, stream \in 1..NumDraws :
           (load(groups) = Null /\ WindowGenerateRound(n, stream)) => stored' = stored
      /\ (load(groups) = Null /\ GenerateRoundClick) => stored' = stored
    ]_vars

(***************************************************************************)
(* Properties of the repair loop                                           *)
(***************************************************************************)
\* the two slices before the loop and after each of its 8 passes, from pass i on
RECURSIVE repairStates(_, _, _)
repairStates(homeSlice, awaySlice, i) ==
  IF i >= 8 THEN << <<homeSlice, awaySlice>> >>
  ELSE Then(repairAt(homeSlice, awaySlice, i),
            LAMBDA r : << <<homeSlice, awaySlice>> >> \o repairStates(r[1], r[2], i + 1))

\* the states of the repair loop over the pool shuffled with stream
repairStatesOf(pool, stream) ==
  Then(shuffle(pool, stream),
       LAMBDA shuffled : repairStates(slice(shuffled, 0, 8), slice(shuffled, 8, 16), 0))

\* pairing k (0-based) of the slices s is between two entrants of one group
clash(s, k) == s[1][k + 1].group = s[2][k + 1].group

clashCount(s) == Cardinality({k \in 0..7 : clash(s, k)})

\* the slices s with the away entrants, or the home entrants, of i and j exchanged
awaySwapped(s, i, j) == <<s[1], swap(s[2], i, j)>>
homeSwapped(s, i, j) == <<swap(s[1], i, j), s[2]>>

\* j is a candidate at i: exchanging leaves neither pairing with a clash
candidate(swapped, i, j) == ~clash(swapped, i) /\ ~clash(swapped, j)

\* pass i took the slices b to the slices c as the claim has it
repairedWell(b, c, i) ==
  /\ c # b =>
       /\ \E j \in (i + 1)..7 :
            /\ c = awaySwapped(b, i, j) \/ c = homeSwapped(b, i, j)
            /\ ~clash(c, i)
            /\ ~clash(c, j)
       /\ \A k \in 0..(i - 1) : c[1][k + 1] = b[1][k + 1] /\ c[2][k + 1] = b[2][k + 1]
  /\ clashCount(c) <= clashCount(b)
  /\ clash(c, i) =>
       \A j \in (i + 1)..7 :
         /\ ~candidate(awaySwapped(b, i, j), i, j)
         /\ ~candidate(homeSwapped(b, i, j), i, j)

\* C23: in the repair loop every exchange made at index i is with an index
\* j > i, of the away halves or else of the home halves, leaves the pairings i
\* and j without a clash and the pairings below i as they were; no pass adds
\* to the number of same-group pairings; and a clash stays at i only when no
\* j > i was a candidate in either half.
C23_RepairNeverAddsAClash ==
  stageComplete =>
    LET pool == assemblePool(computeStandings)
    IN  \A stream \in 1..NumShuffles :
          LET st == repairStatesOf(pool, stream)
          IN  \A i \in 0..7 : repairedWell(st[i + 1], st[i + 2], i)

\* a bracket has just been drawn by a loop that exchanged at one index and
\* left a clash at another
C23_Witness ==
  /\ last.op = "tryAutoGenerateKnockout"
  /\ last.alert = "generated"
  /\ hasBracket(knockout)
  /\ LET pool == assemblePool(computeStandings)
     IN  \E stream \in 1..NumShuffles :
           LET st == repairStatesOf(pool, stream)
           IN  /\ r16 = makeR16(st[9][1], st[9][2])
               /\ \E i \in 0..7 : st[i + 2] # st[i + 1]
               /\ \E i \in 0..7 : clash(st[i + 2], i)

(***************************************************************************)
(* Frame of a score submission                                             *)
(***************************************************************************)
\* C25: a score submission that is stored changes, of the match being edited,
\* the home goals, the away goals and the status (to played) and nothing else:
\* its id, group, round and teams, every other match, the number of matches,
\* the groups and the counter stay; a submission whose edited id is not in the
\* match list changes none of the four keys.
C25_SubmissionChangesOneMatch ==
  [][ last'.op = "saveScoreFromModal" =>
          LET idx == findIndex(storedMatches, currentEditingId)
          IN  IF idx = -1 THEN stored' = stored
              ELSE submissions' = submissions + 1 =>
                /\ groups' = groups
                /\ generatedRounds' = generatedRounds
                /\ matches'.k = "val"
                /\ Len(matches'.v) = Len(storedMatches)
                /\ \A i \in DOMAIN storedMatches :
                     IF i # idx + 1 THEN matches'.v[i] = storedMatches[i]
                     ELSE /\ matches'.v[i].id = storedMatches[i].id
                          /\ matches'.v[i].groupIndex = storedMatches[i].groupIndex
                          /\ matches'.v[i].groupName = storedMatches[i].groupName
                          /\ matches'.v[i].round = storedMatches[i].round
                          /\ matches'.v[i].home = storedMatches[i].home
                          /\ matches'.v[i].away = storedMatches[i].away
                          /\ matches'.v[i].homeGoals # NoGoals
                          /\ matches'.v[i].awayGoals # NoGoals
                          /\ matches'.v[i].status = "played"
    ]_vars

\* a score has just been stored over a bracket, that is for a match that was
\* played already
C25_Witness ==
  /\ last.op = "saveScoreFromModal"
  /\ submissions = 1
  /\ last.was.bracket
  /\ last.was.count = totalGroupMatches
  /\ allPlayed(matches)

(***************************************************************************)
(* Properties of the counter in the flow of the buttons                    *)
(***************************************************************************)
\* the match list is the fixtures of rounds 1..k: 12 a round, 2 a group
roundsGenerated(k) ==
  /\ Len(storedMatches) = 12 * k
  /\ \A g \in 1..NumGroups, r \in {1, 2, 3} :
       Cardinality({i \in DOMAIN storedMatches :
                      storedMatches[i].groupIndex = g - 1 /\ storedMatches[i].round = r})
         = (IF r <= k THEN 2 ELSE 0)

\* C26: with groups stored and rounds generated through the Generate Next
\* Round button alone, a click below 3 advances the counter by exactly 1 and a
\* click at 3 changes nothing; the counter never exceeds 3; and whenever the
\* counter is k the match list is exactly the 12 * k fixtures of rounds 1..k.
C26_CounterCountsTheRounds ==
  /\ [][ (load(groups) # Null /\ GenerateRoundClick) =>
           IF orZero(load(generatedRounds)) >= 3 THEN stored' = stored
           ELSE generatedRounds' = Val(orZero(load(generatedRounds)) + 1)
       ]_vars
  /\ [](load(groups) # Null =>
          /\ orZero(load(generatedRounds)) <= 3
          /\ roundsGenerated(orZero(load(generatedRounds))))

(***************************************************************************)
(* The bracket against the standings                                       *)
(***************************************************************************)
\* the teams of the stored Round of 16
r16Teams == {r16[k].home : k \in DOMAIN r16} \cup {r16[k].away : k \in DOMAIN r16}

\* C27: in every state with a non-empty r16 stored, the teams of r16 are 16:
\* the teams at positions 1 and 2 of each of the six groups and the four
\* qualified thirds, as computeStandings and getBestFourThirds give them for
\* the match list stored now.
C27_BracketAgreesWithStandings ==
  hasBracket(knockout) =>
    LET standings == computeStandings
        thirds == getBestFourThirds(standings).qualified
    IN  /\ Len(standings) = NumGroups
        /\ Len(thirds) = 4
        /\ Cardinality(r16Teams) = 16
        /\ r16Teams =
             {standings[g][r].team :
                g \in DOMAIN standings, r \in {p \in 1..GroupSize : p <= 2}}
             \cup {thirds[k].team : k \in DOMAIN thirds}

(***************************************************************************)
(* The match list against the groups                                       *)
(***************************************************************************)
\* name is a member of group
member(name, group) == \E k \in DOMAIN group : group[k] = name

\* C28: every stored match has a groupIndex of 0..5 and a round of 1..3, and
\* its home and away are two different members of the group stored at that
\* index; so computeStandings counts every played match, for both its teams,
\* and no match of an earlier grouping is left in the list.
C28_MatchesBelongToTheStoredGroups ==
  LET standings == computeStandings
  IN  /\ \A i \in DOMAIN storedMatches :
           LET m == storedMatches[i]
           IN  /\ m.groupIndex \in 0..(NumGroups - 1)
               /\ m.round \in {1, 2, 3}
               /\ m.groupIndex + 1 \in DOMAIN storedGroups
               /\ member(m.home, storedGroups[m.groupIndex + 1])
               /\ member(m.away, storedGroups[m.groupIndex + 1])
               /\ m.home # m.away
      /\ \A g \in DOMAIN standings :
           LET rows == standings[g]
               played == array([r \in DOMAIN rows |-> rows[r].played])
           IN  Len(rows) = GroupSize =>
                 played[1] + played[2] + played[3] + played[4]
                   = 2 * Cardinality(playedOf(g))

\* a score has just been stored for a match of a grouping that replaced the
\* grouping of an earlier visit
C28_Witness ==
  /\ last.op = "saveScoreFromModal"
  /\ submissions = 1
  /\ groups.k = "val"
  /\ groups.v # earlierGroups
  /\ playedCount(storedMatches) = 1
  /\ Len(storedMatches) > 12

(***************************************************************************)
(* Properties claimed of the copy in src/unnamed/part_000                  *)
(***************************************************************************)
\* C29: in the copy, generateRound (also through window.generateRound) for a
\* round that has fixtures in the match list already never increases the
\* number of matches.
C29_CopyRegeneratingAddsNoMatch ==
  [][ ( /\ last'.op \in {"part_000 generateRound", "part_000 window.generateRound"}
        /\ \E i \in DOMAIN storedMatches : storedMatches[i].round = last'.arg[1] )
      => Len(orEmpty(load(matches'))) <= Len(storedMatches)
    ]_vars

\* C30: in the copy, once a bracket with a non-empty r16 is stored a call of
\* tryAutoGenerateKnockout leaves it as it is, and createGroups leaves no
\* bracket of the group stage it replaces.
C30_CopyBracketDrawnOnce ==
  [][ /\ (last'.op = "part_000 tryAutoGenerateKnockout" /\ hasBracket(knockout))
           => knockout' = knockout
      /\ (last'.op = "part_000 createGroups" /\ last'.ret = "groups")
           => ~hasBracket(knockout')
    ]_vars

(***************************************************************************)
(* Properties of mkMatchId                                                 *)
(***************************************************************************)
\* the fixtures a tournament over the groups gs can hold: a group index, a
\* round, and two different teams of that group as home and away
fixtures(gs) ==
  {f \in (0..(Len(gs) - 1)) \X {1, 2, 3} \X (1..GroupSize) \X (1..GroupSize) :
     f[3] # f[4] /\ f[3] <= Len(gs[f[1] + 1]) /\ f[4] <= Len(gs[f[1] + 1])}

\* the id of the fixture f of the groups gs
idOf(gs, f) == mkMatchId(f[1], f[2], gs[f[1] + 1][f[3]], gs[f[1] + 1][f[4]])

\* no name is in the groups gs twice
uniqueNames(gs) ==
  \A p, q \in seats(gs) : p # q => gs[p[1]][p[2]] # gs[q[1]][q[2]]

\* C31: for stored groups of unique names, two fixtures that differ in group
\* index, round, home or away have different ids; so generateRound for a round
\* with no match in the list appends exactly 2 fixtures for each group.
C31_MkMatchIdIsInjective ==
  /\ [](uniqueNames(storedGroups) =>
          \A f, g \in fixtures(storedGroups) :
            f # g => idOf(storedGroups, f) # idOf(storedGroups, g))
  /\ [][ ( /\ last'.op = "generateRound"
           /\ last'.ret = "matches"
           /\ uniqueNames(storedGroups)
           /\ \A g \in DOMAIN storedGroups : Len(storedGroups[g]) = GroupSize
           /\ \A i \in DOMAIN storedMatches : storedMatches[i].round # last'.arg[1] )
         => Len(orEmpty(load(matches'))) = Len(storedMatches) + 2 * Len(storedGroups)
       ]_vars
====
